---- MODULE Spec2Model ----
(***************************************************************************)
(* A model of the bencode codec (package bencode) and of the torrent       *)
(* metadata model (package torrent) of the BitTorrent client.              *)
(*                                                                         *)
(* A byte is a one-character string, a byte buffer a sequence of bytes.    *)
(* Go's int and int64 are 64 bits wide; they are kept at that width as a   *)
(* sign and a magnitude of three base-10^8 limbs, so that the range checks *)
(* of strconv and the wrap-around of + behave as on the machine.           *)
(***************************************************************************)
EXTENDS Integers, Sequences, FiniteSets, TLC

VARIABLES pc, parts, data, result, tail, result2, dict, order, encoded,
          decoded, torrent, infoHash, again, pieceIndex, pieceHash, pieceLength,
          handshake, serialized, inHandshake, args, conn, remote, ret,
          msgs, frames, stream, received, piece, heap,
          compact, peers, response, requested,
          task, channel, timer, opened,
          stack, retval

\* The variables of package peer.
peerVars == <<handshake, serialized, inHandshake, args, conn, remote, ret>>

\* The variables of the peer messages.
msgVars == <<msgs, frames, stream, received, piece, heap>>

\* The variables of package tracker.
trackerVars == <<compact, peers, response, requested>>

\* The variables of the loop of main that tries the peers.
mainVars == <<task, channel, timer, opened>>

\* The call stack of the decoder and the value a call has just returned.
stepVars == <<stack, retval>>

wireVars == <<msgVars, trackerVars, mainVars, stepVars>>

vars == <<pc, parts, data, result, tail, result2, dict, order, encoded,
          decoded, torrent, infoHash, again, pieceIndex, pieceHash, pieceLength,
          peerVars, wireVars>>

(***************************************************************************)
(* Bytes                                                                   *)
(***************************************************************************)
DigitSeq == <<"0", "1", "2", "3", "4", "5", "6", "7", "8", "9">>

LowerSeq == <<"a", "b", "c", "d", "e", "f", "g", "h", "i", "j", "k", "l", "m",
              "n", "o", "p", "q", "r", "s", "t", "u", "v", "w", "x", "y", "z">>

Digits == {DigitSeq[k] : k \in 1..10}

Lower == {LowerSeq[k] : k \in 1..26}

Byte == Digits \cup Lower \cup {" ", "+", "-", ":"}

\* The ASCII code of a byte.
Ord(c) ==
  IF c \in Digits THEN 47 + (CHOOSE k \in 1..10 : DigitSeq[k] = c)
  ELSE IF c \in Lower THEN 96 + (CHOOSE k \in 1..26 : LowerSeq[k] = c)
  ELSE IF c = " " THEN 32
  ELSE IF c = "+" THEN 43
  ELSE IF c = "-" THEN 45
  ELSE 58

\* data[lo:hi] of Go, positions counted from 0.
Slice(s, lo, hi) == SubSeq(s, lo + 1, hi)

\* data[i] of Go.
At(s, i) == s[i + 1]

(***************************************************************************)
(* 64-bit integers                                                         *)
(***************************************************************************)
Base == 10 ^ 8

BigZero == <<0, 0, 0>>

\* 2^63 - 1, 2^63 and 2^64 in limbs.
MaxInt64Mag == <<922, 33720368, 54775807>>

Pow63Mag == <<922, 33720368, 54775808>>

Pow64Mag == <<1844, 67440737, 9551616>>

BigLess(a, b) ==
  \/ a[1] < b[1]
  \/ a[1] = b[1] /\ a[2] < b[2]
  \/ a[1] = b[1] /\ a[2] = b[2] /\ a[3] < b[3]

BigMul10Add(x, d) ==
  LET l == x[3] * 10 + d
      m == x[2] * 10 + (l \div Base)
      h == x[1] * 10 + (m \div Base)
  IN <<h, m % Base, l % Base>>

BigAdd(a, b) ==
  LET l == a[3] + b[3]
      m == a[2] + b[2] + (l \div Base)
      h == a[1] + b[1] + (m \div Base)
  IN <<h, m % Base, l % Base>>

\* a - b for a >= b.
BigSub(a, b) ==
  LET l == a[3] - b[3]
      bl == IF l < 0 THEN 1 ELSE 0
      m == a[2] - b[2] - bl
      bm == IF m < 0 THEN 1 ELSE 0
  IN <<a[1] - b[1] - bm, m + bm * Base, l + bl * Base>>

I64(neg, mag) == [neg |-> neg /\ mag # BigZero, mag |-> mag]

FromInt(n) == I64(n < 0, <<0, 0, IF n < 0 THEN -n ELSE n>>)

IsSmall(x) == x.mag[1] = 0 /\ x.mag[2] = 0

ToInt(x) == IF x.neg THEN -x.mag[3] ELSE x.mag[3]

I64Less(a, b) ==
  IF a.neg /\ ~b.neg THEN TRUE
  ELSE IF ~a.neg /\ b.neg THEN FALSE
  ELSE IF a.neg THEN BigLess(b.mag, a.mag)
  ELSE BigLess(a.mag, b.mag)

\* a + b of Go on int64: the sum modulo 2^64, read as a signed number.
I64Add(a, b) ==
  IF a.neg = b.neg
  THEN LET s == BigAdd(a.mag, b.mag)
       IN IF ~a.neg /\ BigLess(MaxInt64Mag, s)
          THEN I64(TRUE, BigSub(Pow64Mag, s))
          ELSE IF a.neg /\ BigLess(Pow63Mag, s)
          THEN I64(FALSE, BigSub(Pow64Mag, s))
          ELSE I64(a.neg, s)
  ELSE IF BigLess(a.mag, b.mag)
       THEN I64(b.neg, BigSub(b.mag, a.mag))
       ELSE I64(a.neg, BigSub(a.mag, b.mag))

(***************************************************************************)
(* strconv                                                                 *)
(***************************************************************************)
\* The digit loop of strconv.ParseUint for base 10 and 64 bits: the first
\* byte that is not a digit is a syntax error, a value above 2^64 - 1 a
\* range error, whichever the scan meets first.
RECURSIVE parseUintLoop(_, _, _)
parseUintLoop(s, k, n) ==
  IF k > Len(s) THEN [err |-> <<>>, mag |-> n]
  ELSE IF s[k] \notin Digits THEN [err |-> <<"invalid syntax">>, mag |-> BigZero]
  ELSE LET n1 == BigMul10Add(n, Ord(s[k]) - 48)
       IN IF ~BigLess(n1, Pow64Mag)
          THEN [err |-> <<"value out of range">>, mag |-> BigZero]
          ELSE parseUintLoop(s, k + 1, n1)

ParseUint(s) ==
  IF s = <<>> THEN [err |-> <<"invalid syntax">>, mag |-> BigZero]
  ELSE parseUintLoop(s, 1, BigZero)

\* strconv.ParseInt(s, 10, 64): an optional sign, then ParseUint, then the
\* signed range check.
ParseInt(s) ==
  IF s = <<>> THEN [err |-> <<"invalid syntax">>, val |-> FromInt(0)]
  ELSE LET neg == s[1] = "-"
           body == IF s[1] \in {"+", "-"} THEN Tail(s) ELSE s
           un == ParseUint(body)
       IN IF un.err # <<>> THEN [err |-> un.err, val |-> FromInt(0)]
          ELSE IF ~neg /\ ~BigLess(un.mag, Pow63Mag)
          THEN [err |-> <<"value out of range">>, val |-> FromInt(0)]
          ELSE IF neg /\ BigLess(Pow63Mag, un.mag)
          THEN [err |-> <<"value out of range">>, val |-> FromInt(0)]
          ELSE [err |-> <<>>, val |-> I64(neg, un.mag)]

\* strconv.Atoi on a 64-bit platform: ParseInt(s, 10, 0) narrowed to int.
Atoi(s) == ParseInt(s)

\* The decimal digits of a limb, most significant first, without padding.
RECURSIVE limbDigits(_)
limbDigits(n) ==
  IF n < 10 THEN <<DigitSeq[n + 1]>>
  ELSE limbDigits(n \div 10) \o <<DigitSeq[(n % 10) + 1]>>

RECURSIVE padLeft(_, _)
padLeft(s, w) == IF Len(s) >= w THEN s ELSE padLeft(<<"0">> \o s, w)

\* The decimal digits of a magnitude.
MagDigits(mag) ==
  IF mag[1] # 0
  THEN limbDigits(mag[1]) \o padLeft(limbDigits(mag[2]), 8) \o padLeft(limbDigits(mag[3]), 8)
  ELSE IF mag[2] # 0
  THEN limbDigits(mag[2]) \o padLeft(limbDigits(mag[3]), 8)
  ELSE limbDigits(mag[3])

\* FormatInt losing the sign.
FormatInt_unsigned(v) == MagDigits(v.mag)

\* strconv.FormatInt(v, 10).
FormatInt(v) == IF v.neg THEN <<"-">> \o MagDigits(v.mag) ELSE MagDigits(v.mag)

\* strconv.Itoa(n).
Itoa(n) == FormatInt(FromInt(n))

(***************************************************************************)
(* Decoded values and the results of the decoder                           *)
(***************************************************************************)
\* The values an interface{} of the codec holds.  A nil slice and an empty
\* slice are the same list of no items; a nil map and an empty map the same
\* mapping of no keys.
Nil == [tag |-> "nil"]

BStr(s) == [tag |-> "string", str |-> s]

BInt(v) == [tag |-> "int64", num |-> v]

BList(items) == [tag |-> "list", items |-> items]

BDict(m) == [tag |-> "map", map |-> m]

EmptyMap == [k \in {} |-> Nil]

\* The nil error.
NoErr == <<>>

\* return v, n, e
Return(v, n, e) ==
  [st |-> IF e = NoErr THEN "ok" ELSE "err", val |-> v, n |-> n, err |-> e]

\* A run-time panic: the call does not return.
Panic(e) == [st |-> "panic", val |-> Nil, n |-> 0, err |-> e]

\* fmt.Errorf("<msg>: %v", err)
Wrap(msg, e) == <<msg>> \o e

(***************************************************************************)
(* bencode.Decode                                                          *)
(***************************************************************************)
\* for i < len(data) && data[i] != c { i++ }
RECURSIVE scanTo(_, _, _)
scanTo(d, i, c) ==
  IF i < Len(d) /\ At(d, i) # c THEN scanTo(d, i + 1, c) ELSE i

\* decodeString with the count short by the colon: i + length.
decodeString_short(d) ==
  LET i == scanTo(d, 0, ":")
  IN IF i >= Len(d)
     THEN Return(BStr(<<>>), 0, <<"invalid string format: no colon found">>)
     ELSE LET a == Atoi(Slice(d, 0, i))
          IN IF a.err # NoErr
             THEN Return(BStr(<<>>), 0, Wrap("invalid string format", a.err))
             ELSE LET end == I64Add(FromInt(i + 1), a.val)
                  IN IF I64Less(FromInt(Len(d)), end)
                     THEN Return(BStr(<<>>), 0, <<"string data too short">>)
                     ELSE IF I64Less(end, FromInt(i + 1))
                     THEN Panic(<<"slice bounds out of range">>)
                     ELSE Return(BStr(Slice(d, i + 1, ToInt(end))), ToInt(end) - 1, NoErr)

\* decodeString counting only the contents: length.
decodeString_contents(d) ==
  LET i == scanTo(d, 0, ":")
  IN IF i >= Len(d)
     THEN Return(BStr(<<>>), 0, <<"invalid string format: no colon found">>)
     ELSE LET a == Atoi(Slice(d, 0, i))
          IN IF a.err # NoErr
             THEN Return(BStr(<<>>), 0, Wrap("invalid string format", a.err))
             ELSE LET end == I64Add(FromInt(i + 1), a.val)
                  IN IF I64Less(FromInt(Len(d)), end)
                     THEN Return(BStr(<<>>), 0, <<"string data too short">>)
                     ELSE IF I64Less(end, FromInt(i + 1))
                     THEN Panic(<<"slice bounds out of range">>)
                     ELSE Return(BStr(Slice(d, i + 1, ToInt(end))), ToInt(a.val), NoErr)

decodeString(d) ==
  LET i == scanTo(d, 0, ":")
  IN IF i >= Len(d)
     THEN Return(BStr(<<>>), 0, <<"invalid string format: no colon found">>)
     ELSE LET a == Atoi(Slice(d, 0, i))
          IN IF a.err # NoErr
             THEN Return(BStr(<<>>), 0, Wrap("invalid string format", a.err))
             ELSE LET end == I64Add(FromInt(i + 1), a.val)
                  IN IF I64Less(FromInt(Len(d)), end)
                     THEN Return(BStr(<<>>), 0, <<"string data too short">>)
                     ELSE IF I64Less(end, FromInt(i + 1))
                     THEN Panic(<<"slice bounds out of range">>)
                     ELSE Return(BStr(Slice(d, i + 1, ToInt(end))), ToInt(end), NoErr)

\* decodeInteger not counting the closing e.
decodeInteger_short(d) ==
  IF Len(d) < 2 \/ At(d, 0) # "i"
  THEN Return(BInt(FromInt(0)), 0, <<"invalid integer format">>)
  ELSE LET endIndex == scanTo(d, 1, "e")
       IN IF endIndex >= Len(d)
          THEN Return(BInt(FromInt(0)), 0, <<"invalid integer format: no end marker">>)
          ELSE LET numStr == Slice(d, 1, endIndex)
               IN IF Len(numStr) > 1 /\ numStr[1] = "0"
                  THEN Return(BInt(FromInt(0)), 0, <<"invalid integer format: leading zeros">>)
                  ELSE IF Len(numStr) > 1 /\ numStr[1] = "-" /\ numStr[2] = "0"
                  THEN Return(BInt(FromInt(0)), 0, <<"invalid integer format: negative zero">>)
                  ELSE LET p == ParseInt(numStr)
                       IN IF p.err # NoErr
                          THEN Return(BInt(FromInt(0)), 0, Wrap("invalid integer", p.err))
                          ELSE Return(BInt(p.val), endIndex, NoErr)

decodeInteger(d) ==
  IF Len(d) < 2 \/ At(d, 0) # "i"
  THEN Return(BInt(FromInt(0)), 0, <<"invalid integer format">>)
  ELSE LET endIndex == scanTo(d, 1, "e")
       IN IF endIndex >= Len(d)
          THEN Return(BInt(FromInt(0)), 0, <<"invalid integer format: no end marker">>)
          ELSE LET numStr == Slice(d, 1, endIndex)
               IN IF Len(numStr) > 1 /\ numStr[1] = "0"
                  THEN Return(BInt(FromInt(0)), 0, <<"invalid integer format: leading zeros">>)
                  ELSE IF Len(numStr) > 1 /\ numStr[1] = "-" /\ numStr[2] = "0"
                  THEN Return(BInt(FromInt(0)), 0, <<"invalid integer format: negative zero">>)
                  ELSE LET p == ParseInt(numStr)
                       IN IF p.err # NoErr
                          THEN Return(BInt(FromInt(0)), 0, Wrap("invalid integer", p.err))
                          ELSE Return(BInt(p.val), endIndex + 1, NoErr)

RECURSIVE Decode(_), decodeListLoop(_, _, _), decodeDictLoop(_, _, _)

\* decodeList handing back what it has when an item fails.
decodeListLoop_partial(d, pos, acc) ==
  IF pos < Len(d) /\ At(d, pos) # "e"
  THEN LET item == Decode(Slice(d, pos, Len(d)))
       IN IF item.st = "panic" THEN item
          ELSE IF item.st = "err"
          THEN Return(BList(acc), pos, Wrap("error decoding list item", item.err))
          ELSE decodeListLoop(d, pos + item.n, Append(acc, item.val))
  ELSE IF pos >= Len(d)
  THEN Return(BList(<<>>), 0, <<"invalid list format: no end marker">>)
  ELSE Return(BList(acc), pos + 1, NoErr)

\* decodeList collecting its items last first.
decodeListLoop_reversed(d, pos, acc) ==
  IF pos < Len(d) /\ At(d, pos) # "e"
  THEN LET item == Decode(Slice(d, pos, Len(d)))
       IN IF item.st = "panic" THEN item
          ELSE IF item.st = "err"
          THEN Return(BList(<<>>), 0, Wrap("error decoding list item", item.err))
          ELSE decodeListLoop(d, pos + item.n, <<item.val>> \o acc)
  ELSE IF pos >= Len(d)
  THEN Return(BList(<<>>), 0, <<"invalid list format: no end marker">>)
  ELSE Return(BList(acc), pos + 1, NoErr)

\* The loop of decodeList and the code after it; pos is the cursor, acc the
\* items decoded so far.
decodeListLoop(d, pos, acc) ==
  IF pos < Len(d) /\ At(d, pos) # "e"
  THEN LET item == Decode(Slice(d, pos, Len(d)))
       IN IF item.st = "panic" THEN item
          ELSE IF item.st = "err"
          THEN Return(BList(<<>>), 0, Wrap("error decoding list item", item.err))
          ELSE decodeListLoop(d, pos + item.n, Append(acc, item.val))
  ELSE IF pos >= Len(d)
  THEN Return(BList(<<>>), 0, <<"invalid list format: no end marker">>)
  ELSE Return(BList(acc), pos + 1, NoErr)

decodeList(d) ==
  IF Len(d) < 2 \/ At(d, 0) # "l"
  THEN Return(BList(<<>>), 0, <<"invalid list format">>)
  ELSE decodeListLoop(d, 1, <<>>)

\* m[k] = v
MapSet(m, k, v) == [x \in DOMAIN m \cup {k} |-> IF x = k THEN v ELSE m[x]]

\* The loop of the dictionary decoder: a key, which must decode to a string,
\* then its value, until the next byte is 'e'; a later pair overwrites an
\* earlier pair of the same key.
decodeDictLoop(d, pos, acc) ==
  IF pos < Len(d) /\ At(d, pos) # "e"
  THEN LET key == Decode(Slice(d, pos, Len(d)))
       IN IF key.st = "panic" THEN key
          ELSE IF key.st = "err"
          THEN Return(BDict(EmptyMap), 0, Wrap("error decoding dictionary key", key.err))
          ELSE IF key.val.tag # "string"
          THEN Return(BDict(EmptyMap), 0, <<"dictionary key must be a string">>)
          ELSE LET val == Decode(Slice(d, pos + key.n, Len(d)))
               IN IF val.st = "panic" THEN val
                  ELSE IF val.st = "err"
                  THEN Return(BDict(EmptyMap), 0, Wrap("error decoding dictionary value", val.err))
                  ELSE decodeDictLoop(d, pos + key.n + val.n,
                                      MapSet(acc, key.val.str, val.val))
  ELSE IF pos >= Len(d)
  THEN Return(BDict(EmptyMap), 0, <<"invalid dictionary format: no end marker">>)
  ELSE Return(BDict(acc), pos + 1, NoErr)

decodeDict(d) == decodeDictLoop(d, 1, EmptyMap)

Decode(d) ==
  IF Len(d) = 0 THEN Return(Nil, 0, <<"empty data">>)
  ELSE IF At(d, 0) \in Digits THEN decodeString(d)
  ELSE IF At(d, 0) = "i" THEN decodeInteger(d)
  ELSE IF At(d, 0) = "l" THEN decodeList(d)
  ELSE IF At(d, 0) = "d" THEN decodeDict(d)
  ELSE Return(Nil, 0, <<"unkown type", At(d, 0)>>)

(***************************************************************************)
(* bencode.EncodeDict                                                      *)
(***************************************************************************)
\* A []string, which the encoder accepts beside the decoder's value types.
BStrings(strs) == [tag |-> "[]string", strs |-> strs]

\* a < b on Go strings: byte-wise lexicographic order.
RECURSIVE StrLess(_, _)
StrLess(a, b) ==
  IF b = <<>> THEN FALSE
  ELSE IF a = <<>> THEN TRUE
  ELSE IF Ord(a[1]) # Ord(b[1]) THEN Ord(a[1]) < Ord(b[1])
  ELSE StrLess(Tail(a), Tail(b))

\* The order in which "for k := range dict" yields the keys is unspecified:
\* enum picks one.  The keys are laid out in some order, rotated by enum.rot
\* and reversed when enum.rev.
RECURSIVE layOut(_)
layOut(S) ==
  IF S = {} THEN <<>>
  ELSE LET k == CHOOSE x \in S : \A y \in S : x = y \/ StrLess(x, y)
       IN <<k>> \o layOut(S \ {k})

Rotate(s, r) ==
  IF s = <<>> THEN s
  ELSE LET n == Len(s) IN [j \in 1..n |-> s[((j - 1 + r) % n) + 1]]

Reverse(s) == [j \in 1..Len(s) |-> s[Len(s) + 1 - j]]

RangeKeys(m, enum) ==
  LET s == Rotate(layOut(DOMAIN m), enum.rot)
  IN IF enum.rev THEN Reverse(s) ELSE s

\* sort.Strings(keys), as an insertion sort.
RECURSIVE insertSorted(_, _), SortStrings(_)
insertSorted(s, k) ==
  IF s = <<>> THEN <<k>>
  ELSE IF StrLess(k, s[1]) THEN <<k>> \o s
  ELSE <<s[1]>> \o insertSorted(Tail(s), k)

\* The keys left in the order of enumeration.
SortStrings_unsorted(keys) == keys

\* The keys ordered by length before content.
SortStrings_byLength(keys) ==
  IF keys = <<>> THEN <<>>
  ELSE LET rest == SortStrings(SubSeq(keys, 1, Len(keys) - 1))
           k == keys[Len(keys)]
           before == SelectSeq(rest, LAMBDA x : Len(x) < Len(k) \/ (Len(x) = Len(k) /\ StrLess(x, k)))
           after == SelectSeq(rest, LAMBDA x : ~(Len(x) < Len(k) \/ (Len(x) = Len(k) /\ StrLess(x, k))))
       IN before \o <<k>> \o after

SortStrings(keys) ==
  IF keys = <<>> THEN <<>>
  ELSE insertSorted(SortStrings(SubSeq(keys, 1, Len(keys) - 1)), keys[Len(keys)])

\* <len>:<bytes>
encodeString(buf, str) == buf \o Itoa(Len(str)) \o <<":">> \o str

RECURSIVE EncodeDict(_, _), encodeValue(_, _, _), encodeItems(_, _, _),
          encodePairs(_, _, _, _)

\* The loop of EncodeDict over the sorted keys.
encodePairs(buf, m, keys, enum) ==
  IF keys = <<>> THEN [buf |-> buf, err |-> NoErr]
  ELSE LET r == encodeValue(encodeString(buf, keys[1]), m[keys[1]], enum)
       IN IF r.err # NoErr THEN r
          ELSE encodePairs(r.buf, m, Tail(keys), enum)

EncodeDict(m, enum) ==
  LET keys == SortStrings(RangeKeys(m, enum))
      r == encodePairs(<<"d">>, m, keys, enum)
  IN IF r.err # NoErr THEN [bytes |-> <<>>, err |-> r.err]
     ELSE [bytes |-> r.buf \o <<"e">>, err |-> NoErr]

\* The loop of encodeValue over the items of a []interface{}.
encodeItems(buf, items, enum) ==
  IF items = <<>> THEN [buf |-> buf, err |-> NoErr]
  ELSE LET r == encodeValue(buf, items[1], enum)
       IN IF r.err # NoErr THEN r
          ELSE encodeItems(r.buf, Tail(items), enum)

RECURSIVE encodeStrings(_, _)
encodeStrings(buf, strs) ==
  IF strs = <<>> THEN buf
  ELSE encodeStrings(encodeString(buf, strs[1]), Tail(strs))

encodeValue(buf, v, enum) ==
  IF v.tag = "string" THEN [buf |-> encodeString(buf, v.str), err |-> NoErr]
  ELSE IF v.tag = "int64"
  THEN [buf |-> buf \o <<"i">> \o FormatInt(v.num) \o <<"e">>, err |-> NoErr]
  ELSE IF v.tag = "list"
  THEN LET r == encodeItems(buf \o <<"l">>, v.items, enum)
       IN IF r.err # NoErr THEN r
          ELSE [buf |-> r.buf \o <<"e">>, err |-> NoErr]
  ELSE IF v.tag = "map"
  THEN LET r == EncodeDict(v.map, enum)
       IN IF r.err # NoErr THEN [buf |-> buf, err |-> r.err]
          ELSE [buf |-> buf \o r.bytes, err |-> NoErr]
  ELSE IF v.tag = "[]string"
  THEN [buf |-> encodeStrings(buf \o <<"l">>, v.strs) \o <<"e">>, err |-> NoErr]
  ELSE [buf |-> buf, err |-> <<"unsupported type for encoding", v.tag>>]

(***************************************************************************)
(* Inputs                                                                  *)
(***************************************************************************)
MaxLen == 4

MaxBody == 3

MaxPayload == 11

MaxItems == 2

MaxPairs == 2

SeqsUpTo(S, n) == UNION {[1..k -> S] : k \in 0..n}

RECURSIVE Concat(_)
Concat(ss) == IF ss = <<>> THEN <<>> ELSE ss[1] \o Concat(Tail(ss))

\* Every buffer of at most MaxLen bytes over the bytes the decoder tells apart.
ShortBuffers == SeqsUpTo({"0", "1", ":", "i", "l", "d", "e", "-", "+", "a"}, MaxLen)

\* Decimal bodies at the edges of the signed and unsigned 64-bit ranges.
BigBodies ==
  {<<"9", "2", "2", "3", "3", "7", "2", "0", "3", "6", "8", "5", "4", "7", "7", "5", "8", "0", "7">>,
   <<"9", "2", "2", "3", "3", "7", "2", "0", "3", "6", "8", "5", "4", "7", "7", "5", "8", "0", "8">>,
   <<"-", "9", "2", "2", "3", "3", "7", "2", "0", "3", "6", "8", "5", "4", "7", "7", "5", "8", "0", "8">>,
   <<"-", "9", "2", "2", "3", "3", "7", "2", "0", "3", "6", "8", "5", "4", "7", "7", "5", "8", "0", "9">>,
   <<"1", "8", "4", "4", "6", "7", "4", "4", "0", "7", "3", "7", "0", "9", "5", "5", "1", "6", "1", "6">>,
   <<"+", "9", "2", "2", "3", "3", "7", "2", "0", "3", "6", "8", "5", "4", "7", "7", "5", "8", "0", "7">>}

IntBodies == SeqsUpTo({"0", "1", "9", "-", "+", "a"}, MaxBody) \cup BigBodies

\* Length prefixes: small ones, ones with leading zeros or stray bytes, and
\* ones at the edge of the int range.
LenPrefixes ==
  {<<"0">>,
   <<"1">>,
   <<"2">>,
   <<"3">>,
   <<"0", "0">>,
   <<"0", "1">>,
   <<"1", "0">>,
   <<"1", "1">>,
   <<"1", "a">>,
   <<"1", "-">>,
   <<"9", "2", "2", "3", "3", "7", "2", "0", "3", "6", "8", "5", "4", "7", "7", "5", "7", "8", "7">>,
   <<"9", "2", "2", "3", "3", "7", "2", "0", "3", "6", "8", "5", "4", "7", "7", "5", "7", "8", "8">>,
   <<"9", "2", "2", "3", "3", "7", "2", "0", "3", "6", "8", "5", "4", "7", "7", "5", "8", "0", "6">>,
   <<"9", "2", "2", "3", "3", "7", "2", "0", "3", "6", "8", "5", "4", "7", "7", "5", "8", "0", "7">>,
   <<"9", "2", "2", "3", "3", "7", "2", "0", "3", "6", "8", "5", "4", "7", "7", "5", "8", "0", "8">>}

ItemPieces ==
  {<<"i", "1", "e">>,
   <<"1", ":", "a">>,
   <<"0", ":">>,
   <<"l", "e">>,
   <<"l", "1", ":", "a", "e">>,
   <<"d", "e">>,
   <<"d", "1", ":", "a", "i", "1", "e", "e">>,
   <<"i", "1">>,
   <<"2", ":", "a">>,
   <<"a">>,
   <<"9", "2", "2", "3", "3", "7", "2", "0", "3", "6", "8", "5", "4", "7", "7", "5", "8", "0", "7", ":">>}

KeyPieces == {<<"1", ":", "a">>,
              <<"1", ":", "b">>,
              <<"i", "1", "e">>,
              <<"a">>}

ValPieces == {<<"i", "1", "e">>,
              <<"i", "2", "e">>,
              <<"l", "e">>,
              <<"i", "1">>,
              <<>>}

\* How an input buffer is put together:
\*   raw    any short buffer
\*   int    i<body>, with or without the closing e
\*   str    <prefix>:<payload>
\*   list   l<item>*, with or without the closing e
\*   dict   d(<key><value>)*, with or without the closing e
InputParts ==
  {[kind |-> "raw", bytes |-> b] : b \in ShortBuffers}
  \cup {[kind |-> "int", body |-> b, closed |-> c] : b \in IntBodies, c \in BOOLEAN}
  \cup {[kind |-> "str", prefix |-> p, payload |-> [j \in 1..k |-> "a"]] :
          p \in LenPrefixes, k \in 0..MaxPayload}
  \cup {[kind |-> "list", items |-> its, closed |-> c] :
          its \in SeqsUpTo(ItemPieces, MaxItems), c \in BOOLEAN}
  \cup {[kind |-> "dict", pairs |-> ps, closed |-> c] :
          ps \in SeqsUpTo(KeyPieces \X ValPieces, MaxPairs), c \in BOOLEAN}

Closing(c) == IF c THEN <<"e">> ELSE <<>>

Build(p) ==
  IF p.kind = "raw" THEN p.bytes
  ELSE IF p.kind = "int" THEN <<"i">> \o p.body \o Closing(p.closed)
  ELSE IF p.kind = "str" THEN p.prefix \o <<":">> \o p.payload
  ELSE IF p.kind = "list" THEN <<"l">> \o Concat(p.items) \o Closing(p.closed)
  ELSE <<"d">> \o Concat([j \in DOMAIN p.pairs |-> p.pairs[j][1] \o p.pairs[j][2]])
              \o Closing(p.closed)

\* What may follow the bytes of a value in a longer buffer.
Tails == {<<>>,
          <<"e">>,
          <<"1">>,
          <<":", "a">>,
          <<"i", "1", "e">>,
          <<"1", ":", "a">>}

(***************************************************************************)
(* The decoder applied to a buffer                                         *)
(***************************************************************************)
None == [st |-> "none"]

InitDecode ==
  /\ pc = "Decode"
  /\ parts \in InputParts
  /\ data = Build(parts)
  /\ result = None
  /\ tail = <<>>
  /\ result2 = None
  /\ dict = Nil
  /\ order = Nil
  /\ encoded = None
  /\ decoded = None
  /\ torrent = None
  /\ infoHash = None
  /\ again = None
  /\ pieceIndex = Nil
  /\ pieceHash = None
  /\ pieceLength = None
  /\ handshake = Nil
  /\ serialized = None
  /\ inHandshake = None
  /\ args = Nil
  /\ conn = Nil
  /\ remote = Nil
  /\ ret = None
  /\ stack = Nil
  /\ retval = None
  /\ msgs = Nil
  /\ frames = Nil
  /\ stream = Nil
  /\ received = Nil
  /\ piece = Nil
  /\ heap = Nil
  /\ compact = Nil
  /\ peers = Nil
  /\ response = Nil
  /\ requested = Nil
  /\ task = Nil
  /\ channel = Nil
  /\ timer = Nil
  /\ opened = Nil

\* result, n, err := Decode(data)
DecodeCall ==
  /\ pc = "Decode"
  /\ result' = Decode(data)
  /\ pc' = "decoded"
  /\ UNCHANGED <<wireVars, peerVars, pieceIndex, pieceHash, pieceLength, again, parts, data, tail, result2, dict, order, encoded, decoded, torrent, infoHash>>

\* A caller that advances its cursor: the bytes Decode consumed, followed
\* by other bytes, are decoded once more.
DecodeWithTail ==
  /\ pc = "decoded"
  /\ result.st = "ok"
  /\ \E t \in Tails :
       /\ tail' = t
       /\ result2' = Decode(Slice(data, 0, result.n) \o t)
  /\ pc' = "redecoded"
  /\ UNCHANGED <<wireVars, peerVars, pieceIndex, pieceHash, pieceLength, again, parts, data, result, dict, order, encoded, decoded, torrent, infoHash>>

NextDecode == DecodeCall \/ DecodeWithTail

SpecDecode == InitDecode /\ [][NextDecode]_vars

(***************************************************************************)
(* Properties of the decoder                                               *)
(***************************************************************************)
Called == pc \in {"decoded", "redecoded"}

\* C3: when Decode(b) succeeds with value v and count n, then 1 <= n <= len(b)
\* and Decode(b[0..n) ++ t) succeeds with the same v and n for every t.
DecodeConsumesOnlyItsValue ==
  /\ (Called /\ result.st = "ok") => (1 <= result.n /\ result.n <= Len(data))
  /\ pc = "redecoded" =>
       /\ result2.st = "ok"
       /\ result2.n = result.n
       /\ result2.val = result.val

DecodeConsumesOnlyItsValue_witness ==
  /\ pc = "redecoded"
  /\ tail = <<"1", ":", "a">>
  /\ result.val.tag = "list"
  /\ Len(result.val.items) = 2
  /\ result.n < Len(data)

\* The zero values the decoder returns beside an error.
ZeroValues == {Nil, BStr(<<>>), BInt(FromInt(0)), BList(<<>>), BDict(EmptyMap)}

\* C4: whenever Decode fails, at any nesting depth, the count it returns is 0
\* and no partially built list or dictionary is returned.
DecodeFailureReturnsNothing ==
  /\ (Called /\ result.st = "err") => (result.n = 0 /\ result.val \in ZeroValues)
  /\ (pc = "redecoded" /\ result2.st = "err") =>
       (result2.n = 0 /\ result2.val \in ZeroValues)

\* A list fails in its second item, after one item was decoded, inside an
\* enclosing dictionary or list.
DecodeFailureReturnsNothing_witness ==
  /\ pc = "decoded"
  /\ parts.kind = "list"
  /\ Len(parts.items) = 2
  /\ parts.items[1] = <<"l", "1", ":", "a", "e">>
  /\ parts.items[2] = <<"i", "1">>
  /\ result.st = "err"
  /\ result.err[1] = "error decoding list item"

\* a <= b for decimal numerals without leading zeros.
DecLessEq(a, b) == Len(a) < Len(b) \/ (Len(a) = Len(b) /\ ~StrLess(b, a))

MaxInt64Digits == <<"9", "2", "2", "3", "3", "7", "2", "0", "3", "6", "8", "5", "4", "7", "7", "5", "8", "0", "7">>

Pow63Digits == <<"9", "2", "2", "3", "3", "7", "2", "0", "3", "6", "8", "5", "4", "7", "7", "5", "8", "0", "8">>

\* C5: Decode of i<body>e succeeds exactly when body is "0" or an optional '-'
\* followed by a non-zero digit and further digits, with a value in the 64-bit
\* signed range, and then returns that value and len(body)+2; a multi-digit
\* body starting with '0' fails with the leading-zero error, one starting with
\* "-0" with the negative-zero error, one with a byte that is not a digit
\* (other than a leading '-') with the invalid-digits error.
IntegerLiteralGrammar ==
  (Called /\ parts.kind = "int" /\ parts.closed) =>
    LET body == parts.body
        neg == body # <<>> /\ body[1] = "-"
        digits == IF neg THEN Tail(body) ELSE body
        allDigits == \A j \in 1..Len(digits) : digits[j] \in Digits
        wellFormed == body = <<"0">> \/ (digits # <<>> /\ allDigits /\ digits[1] # "0")
        inRange == DecLessEq(digits, IF neg THEN Pow63Digits ELSE MaxInt64Digits)
        leadingZero == Len(body) > 1 /\ body[1] = "0"
        negativeZero == Len(body) > 1 /\ body[1] = "-" /\ body[2] = "0"
    IN /\ (result.st = "ok") <=> (wellFormed /\ inRange)
       /\ result.st = "ok" =>
            /\ result.val.tag = "int64"
            /\ FormatInt(result.val.num) = body
            /\ result.n = Len(body) + 2
       /\ leadingZero => result.err = <<"invalid integer format: leading zeros">>
       /\ negativeZero => result.err = <<"invalid integer format: negative zero">>
       /\ (~leadingZero /\ ~negativeZero /\ ~allDigits) =>
            result.err = <<"invalid integer", "invalid syntax">>

\* C6: <decimal-length>:<bytes> whose declared length, accepted by the length
\* parser, exceeds the bytes that remain after the colon fails with the
\* truncated-string error and 0 bytes consumed, and no read leaves the buffer.
TruncatedStringReported ==
  (Called /\ parts.kind = "str") =>
    LET a == Atoi(parts.prefix)
    IN (a.err = NoErr /\ I64Less(FromInt(Len(parts.payload)), a.val)) =>
         /\ result.st = "err"
         /\ result.err = <<"string data too short">>
         /\ result.n = 0

\* What the well-formed pieces of the inputs stand for.
ValidPieces ==
  {<<"i", "1", "e">>,
   <<"i", "2", "e">>,
   <<"1", ":", "a">>,
   <<"1", ":", "b">>,
   <<"0", ":">>,
   <<"l", "e">>,
   <<"l", "1", ":", "a", "e">>,
   <<"d", "e">>,
   <<"d", "1", ":", "a", "i", "1", "e", "e">>}

Meaning(p) ==
  IF p = <<"i", "1", "e">> THEN BInt(FromInt(1))
  ELSE IF p = <<"i", "2", "e">> THEN BInt(FromInt(2))
  ELSE IF p = <<"1", ":", "a">> THEN BStr(<<"a">>)
  ELSE IF p = <<"1", ":", "b">> THEN BStr(<<"b">>)
  ELSE IF p = <<"0", ":">> THEN BStr(<<>>)
  ELSE IF p = <<"l", "e">> THEN BList(<<>>)
  ELSE IF p = <<"l", "1", ":", "a", "e">> THEN BList(<<BStr(<<"a">>)>>)
  ELSE IF p = <<"d", "e">> THEN BDict(EmptyMap)
  ELSE BDict([k \in {<<"a">>} |-> BInt(FromInt(1))])

RECURSIVE SumLen(_)
SumLen(ps) == IF ps = <<>> THEN 0 ELSE Len(ps[1]) + SumLen(Tail(ps))

AllValid(ps) == \A j \in DOMAIN ps : ps[j] \in ValidPieces

\* The items of a list input from the k-th on, and what closes the buffer.
RestFrom(its, k, closed) == Concat(SubSeq(its, k, Len(its))) \o Closing(closed)

ListResultInOrder ==
  (Called /\ parts.kind = "list" /\ parts.closed /\ AllValid(parts.items)) =>
    /\ result.st = "ok"
    /\ result.val = BList([j \in DOMAIN parts.items |-> Meaning(parts.items[j])])
    /\ result.n = 2 + SumLen(parts.items)

ListItemErrorWrapped ==
  (Called /\ parts.kind = "list") =>
    \A k \in DOMAIN parts.items :
      LET inner == Decode(RestFrom(parts.items, k, parts.closed))
      IN (AllValid(SubSeq(parts.items, 1, k - 1)) /\ inner.st = "err") =>
           /\ result.st = "err"
           /\ result.err = Wrap("error decoding list item", inner.err)

\* C7 as first stated: items in input order, a count of 2 plus the counts of
\* the items, the unterminated-list error whenever the buffer ends before the
\* closing 'e', and an error wrapping the item's error when an item fails.
ListDecodeAsStated ==
  /\ ListResultInOrder
  /\ ListItemErrorWrapped
  /\ (Called /\ parts.kind = "list" /\ ~parts.closed /\ AllValid(parts.items)) =>
       /\ result.st = "err"
       /\ result.err = <<"invalid list format: no end marker">>

\* C7, amended: as stated, but the unterminated-list error is returned when a
\* buffer of at least two bytes ends before the closing 'e'; the one-byte
\* buffer "l" fails with the plain invalid-list-format error.
ListDecode ==
  /\ ListResultInOrder
  /\ ListItemErrorWrapped
  /\ (Called /\ parts.kind = "list" /\ ~parts.closed /\ AllValid(parts.items)) =>
       /\ result.st = "err"
       /\ result.err = IF parts.items = <<>>
                       THEN <<"invalid list format">>
                       ELSE <<"invalid list format: no end marker">>

ListDecode_witness ==
  /\ pc = "decoded"
  /\ parts.kind = "list"
  /\ parts.closed
  /\ parts.items = << <<"1", ":", "a">>, <<"i", "1", "e">> >>
  /\ result.st = "ok"
  /\ result.val.items = <<BStr(<<"a">>), BInt(FromInt(1))>>
  /\ result.n = 8

ValidKey(kp) == kp \in ValidPieces /\ Meaning(kp).tag = "string"

AllValidPairs(ps) == \A j \in DOMAIN ps : ValidKey(ps[j][1]) /\ ps[j][2] \in ValidPieces

\* The mapping that gives each key the value of its last occurrence.
LastWins(ps) ==
  [k \in {Meaning(ps[j][1]).str : j \in DOMAIN ps} |->
     LET last == CHOOSE j \in DOMAIN ps :
                   /\ Meaning(ps[j][1]).str = k
                   /\ \A j2 \in DOMAIN ps : j2 > j => Meaning(ps[j2][1]).str # k
     IN Meaning(ps[last][2])]

\* The bytes of a dictionary input from the value of the k-th pair on.
RestFromValue(ps, k, closed) ==
  ps[k][2] \o Concat([j \in 1..(Len(ps) - k) |-> ps[k + j][1] \o ps[k + j][2]])
          \o Closing(closed)

\* C8: Decode of d(<key><value>)*e accepts keys in any order and with
\* duplicates and returns the mapping of each key to the value of its last
\* occurrence, consuming the whole span up to and including the closing 'e';
\* a key that decodes to a non-string fails with the non-string-key error, a
\* failing value with an error wrapping the inner error, and a buffer that
\* ends before the closing 'e' with the unterminated-dictionary error.
DictDecode ==
  (Called /\ parts.kind = "dict") =>
    LET ps == parts.pairs
    IN /\ (parts.closed /\ AllValidPairs(ps)) =>
            /\ result.st = "ok"
            /\ result.val = BDict(LastWins(ps))
            /\ result.n = Len(data)
       /\ (~parts.closed /\ AllValidPairs(ps)) =>
            /\ result.st = "err"
            /\ result.err = <<"invalid dictionary format: no end marker">>
       /\ \A k \in DOMAIN ps :
            AllValidPairs(SubSeq(ps, 1, k - 1)) =>
              /\ (ps[k][1] \in ValidPieces /\ ~ValidKey(ps[k][1])) =>
                   /\ result.st = "err"
                   /\ result.err = <<"dictionary key must be a string">>
              /\ (ValidKey(ps[k][1]) /\ Decode(RestFromValue(ps, k, parts.closed)).st = "err") =>
                   /\ result.st = "err"
                   /\ result.err = Wrap("error decoding dictionary value",
                                        Decode(RestFromValue(ps, k, parts.closed)).err)

\* The same key twice: the later value is the one kept.
DictDecode_witness ==
  /\ pc = "decoded"
  /\ parts.kind = "dict"
  /\ parts.closed
  /\ parts.pairs = << <<<<"1", ":", "a">>, <<"i", "1", "e">>>>, <<<<"1", ":", "a">>, <<"i", "2", "e">>>> >>
  /\ result.st = "ok"
  /\ result.val.map = [k \in {<<"a">>} |-> BInt(FromInt(2))]
  /\ result.n = 14

(***************************************************************************)
(* The encoder applied to a dictionary, and the decoder to its output      *)
(***************************************************************************)
MaxKeys == 2

MaxListLen == 2

EncKeys == {<<>>, <<"a", "b">>, <<"b">>}

InnerKeys == {<<"a">>, <<"b">>}

MinInt64 == I64(TRUE, Pow63Mag)

MaxInt64 == I64(FALSE, MaxInt64Mag)

Leaves ==
  {BStr(<<>>), BStr(<<"a">>), BStr(<<"i", "1", "e", ":", "0", "1", "2", "3", "4", "5", "6">>),
   BInt(FromInt(0)), BInt(FromInt(-12)), BInt(MaxInt64), BInt(MinInt64)}

InnerLeaves == {BStr(<<"a">>), BInt(FromInt(-12))}

MapsOver(K, V, n) ==
  UNION {[D -> V] : D \in {D \in SUBSET K : Cardinality(D) <= n}}

Containers ==
  {BList(items) : items \in SeqsUpTo(InnerLeaves, MaxListLen)}
  \cup {BDict(m) : m \in MapsOver(InnerKeys, InnerLeaves, 2)}

\* Containers inside containers.
Deep ==
  {BList(<<BList(<<BStr(<<"a">>)>>),
           BDict([k \in InnerKeys |-> IF k = <<"a">> THEN BList(<<>>) ELSE BInt(FromInt(7))])>>),
   BDict([k \in InnerKeys |->
            IF k = <<"a">> THEN BDict([j \in InnerKeys |-> BStr(j)])
            ELSE BList(<<BInt(FromInt(0))>>)])}

\* Values of the other types the encoder is handed: a []string, which it
\* encodes, and a type it does not support.
Others == {BStrings(<<<<"a">>, <<>>>>), [tag |-> "bool"]}

EncValues == Leaves \cup Containers \cup Deep \cup Others

\* The values that are combined under several keys.
FewValues ==
  {BStr(<<"a">>), BInt(MinInt64), BList(<<BInt(FromInt(0))>>),
   BDict([k \in InnerKeys |-> IF k = <<"a">> THEN BStr(<<"a">>) ELSE BInt(FromInt(-12))])}

\* Dictionaries of up to MaxKeys keys over a few values, and dictionaries of
\* one key over every value.
EncDicts ==
  MapsOver(EncKeys, FewValues, MaxKeys)
  \cup {[k \in {key} |-> v] : key \in EncKeys, v \in EncValues}

Orders == [rot : 0..(MaxKeys - 1), rev : BOOLEAN]

InitEncode ==
  /\ pc = "EncodeDict"
  /\ dict \in EncDicts
  /\ order \in Orders
  /\ encoded = None
  /\ decoded = None
  /\ parts = Nil
  /\ data = <<>>
  /\ result = None
  /\ tail = <<>>
  /\ result2 = None
  /\ torrent = None
  /\ infoHash = None
  /\ again = None
  /\ pieceIndex = Nil
  /\ pieceHash = None
  /\ pieceLength = None
  /\ handshake = Nil
  /\ serialized = None
  /\ inHandshake = None
  /\ args = Nil
  /\ conn = Nil
  /\ remote = Nil
  /\ ret = None
  /\ stack = Nil
  /\ retval = None
  /\ msgs = Nil
  /\ frames = Nil
  /\ stream = Nil
  /\ received = Nil
  /\ piece = Nil
  /\ heap = Nil
  /\ compact = Nil
  /\ peers = Nil
  /\ response = Nil
  /\ requested = Nil
  /\ task = Nil
  /\ channel = Nil
  /\ timer = Nil
  /\ opened = Nil

\* encoded, err := EncodeDict(dict)
EncodeCall ==
  /\ pc = "EncodeDict"
  /\ encoded' = EncodeDict(dict, order)
  /\ pc' = "encoded"
  /\ UNCHANGED <<wireVars, peerVars, pieceIndex, pieceHash, pieceLength, again, parts, data, result, tail, result2, dict, order, decoded, torrent, infoHash>>

\* decoded, n, err := Decode(encoded)
DecodeEncoded ==
  /\ pc = "encoded"
  /\ encoded.err = NoErr
  /\ decoded' = Decode(encoded.bytes)
  /\ pc' = "roundtrip"
  /\ UNCHANGED <<wireVars, peerVars, pieceIndex, pieceHash, pieceLength, again, parts, data, result, tail, result2, dict, order, encoded, torrent, infoHash>>

NextEncode == EncodeCall \/ DecodeEncoded

SpecEncode == InitEncode /\ [][NextEncode]_vars

(***************************************************************************)
(* Properties of the encoder                                               *)
(***************************************************************************)
\* Built from strings, 64-bit integers, lists and dictionaries only.
RECURSIVE DecoderTyped(_)
DecoderTyped(v) ==
  IF v.tag \in {"string", "int64"} THEN TRUE
  ELSE IF v.tag = "list" THEN \A j \in DOMAIN v.items : DecoderTyped(v.items[j])
  ELSE IF v.tag = "map" THEN \A k \in DOMAIN v.map : DecoderTyped(v.map[k])
  ELSE FALSE

\* C1: for every dictionary d built from strings, 64-bit integers, lists and
\* nested dictionaries, decoding the output of EncodeDict(d) succeeds, consumes
\* exactly the whole encoded buffer, and yields a value equal to d.
EncodeDecodeRoundTrip ==
  DecoderTyped(BDict(dict)) =>
    /\ pc # "EncodeDict" => encoded.err = NoErr
    /\ pc = "roundtrip" =>
         /\ decoded.st = "ok"
         /\ decoded.n = Len(encoded.bytes)
         /\ decoded.val = BDict(dict)

EncodeDecodeRoundTrip_witness ==
  /\ pc = "roundtrip"
  /\ DecoderTyped(BDict(dict))
  /\ DOMAIN dict = {<<"a", "b">>, <<"b">>}
  /\ dict[<<"b">>] = BInt(MinInt64)
  /\ dict[<<"a", "b">>].tag = "map"
  /\ Cardinality(DOMAIN dict[<<"a", "b">>].map) = 2
  /\ decoded.n > 40

\* The keys of every dictionary in the bencoding b of one value are strictly
\* ascending; prev is the key before the cursor, or Nil.
RECURSIVE KeysAscending(_), DictKeysAscending(_, _, _), ListKeysAscending(_, _)
DictKeysAscending(b, pos, prev) ==
  IF pos >= Len(b) \/ At(b, pos) = "e" THEN TRUE
  ELSE LET key == Decode(Slice(b, pos, Len(b)))
           val == Decode(Slice(b, pos + key.n, Len(b)))
       IN /\ key.st = "ok" /\ key.val.tag = "string" /\ val.st = "ok"
          /\ prev # Nil => StrLess(prev.str, key.val.str)
          /\ KeysAscending(Slice(b, pos + key.n, Len(b)))
          /\ DictKeysAscending(b, pos + key.n + val.n, key.val)

ListKeysAscending(b, pos) ==
  IF pos >= Len(b) \/ At(b, pos) = "e" THEN TRUE
  ELSE LET item == Decode(Slice(b, pos, Len(b)))
       IN /\ item.st = "ok"
          /\ KeysAscending(Slice(b, pos, Len(b)))
          /\ ListKeysAscending(b, pos + item.n)

KeysAscending(b) ==
  IF At(b, 0) = "d" THEN DictKeysAscending(b, 1, Nil)
  ELSE IF At(b, 0) = "l" THEN ListKeysAscending(b, 1)
  ELSE TRUE

\* C2: EncodeDict emits the keys of every dictionary, at every nesting level,
\* in strictly ascending byte-lexicographic order, whatever order the map
\* enumerates them in.
EncodedKeysAscending ==
  (pc # "EncodeDict" /\ encoded.err = NoErr) => KeysAscending(encoded.bytes)

\* The map yields its keys in descending order, at both levels.
EncodedKeysAscending_witness ==
  /\ pc = "encoded"
  /\ encoded.err = NoErr
  /\ order = [rot |-> 0, rev |-> TRUE]
  /\ DOMAIN dict = {<<"a", "b">>, <<"b">>}
  /\ dict[<<"b">>].tag = "map"
  /\ DOMAIN dict[<<"b">>].map = InnerKeys
  /\ RangeKeys(dict, order) = <<<<"b">>, <<"a", "b">>>>

(***************************************************************************)
(* package torrent                                                         *)
(***************************************************************************)
\* The keys of the torrent file, as byte strings.
kAnnounce ==
  <<"a", "n", "n", "o", "u", "n", "c", "e">>

kAnnounceList ==
  <<"a", "n", "n", "o", "u", "n", "c", "e", "-", "l", "i", "s", "t">>

kCreationDate ==
  <<"c", "r", "e", "a", "t", "i", "o", "n", " ", "d", "a", "t", "e">>

kComment ==
  <<"c", "o", "m", "m", "e", "n", "t">>

kCreatedBy ==
  <<"c", "r", "e", "a", "t", "e", "d", " ", "b", "y">>

kEncoding ==
  <<"e", "n", "c", "o", "d", "i", "n", "g">>

kInfo ==
  <<"i", "n", "f", "o">>

kPieceLength ==
  <<"p", "i", "e", "c", "e", " ", "l", "e", "n", "g", "t", "h">>

kPieces ==
  <<"p", "i", "e", "c", "e", "s">>

kName ==
  <<"n", "a", "m", "e">>

kLength ==
  <<"l", "e", "n", "g", "t", "h">>

kFiles ==
  <<"f", "i", "l", "e", "s">>

kPath ==
  <<"p", "a", "t", "h">>

kPrivate ==
  <<"p", "r", "i", "v", "a", "t", "e">>

\* The zero value of a TorrentFile.
ZeroTorrent ==
  [Announce |-> <<>>, AnnounceList |-> <<>>, CreationDate |-> FromInt(0),
   Comment |-> <<>>, CreatedBy |-> <<>>, Encoding |-> <<>>,
   Info |-> [PieceLength |-> FromInt(0), Pieces |-> <<>>, Name |-> <<>>,
             Length |-> FromInt(0), Files |-> <<>>, Private |-> FromInt(0)]]

\* _, ok := m[k].(T): the key is present and its value has the type.
Has(m, k, tag) == k \in DOMAIN m /\ m[k].tag = tag

\* The value of an optional field, or the zero value it keeps.
StringOr(m, k) == IF Has(m, k, "string") THEN m[k].str ELSE <<>>

Int64Or(m, k) == IF Has(m, k, "int64") THEN m[k].num ELSE FromInt(0)

\* The loops that append the elements that are strings and skip the others.
RECURSIVE Strings(_)
Strings(items) ==
  IF items = <<>> THEN <<>>
  ELSE (IF items[1].tag = "string" THEN <<items[1].str>> ELSE <<>>)
       \o Strings(Tail(items))

\* The loop over announce-list: a tier that is not a list is skipped.
RECURSIVE parseTiers(_)
parseTiers(tiers) ==
  IF tiers = <<>> THEN <<>>
  ELSE (IF tiers[1].tag = "list" THEN <<Strings(tiers[1].items)>> ELSE <<>>)
       \o parseTiers(Tail(tiers))

\* The loop over info.files: an element that is not a dictionary is skipped;
\* a dictionary without an integer length or a list path ends the parse.
RECURSIVE parseFiles(_, _)
parseFiles(files, acc) ==
  IF files = <<>> THEN [files |-> acc, err |-> NoErr]
  ELSE IF files[1].tag # "map" THEN parseFiles(Tail(files), acc)
  ELSE IF ~Has(files[1].map, kLength, "int64")
  THEN [files |-> <<>>, err |-> <<"missing or invalid file length">>]
  ELSE IF ~Has(files[1].map, kPath, "list")
  THEN [files |-> <<>>, err |-> <<"missing or invalid file path">>]
  ELSE parseFiles(Tail(files),
                  Append(acc, [Length |-> files[1].map[kLength].num,
                               Path |-> Strings(files[1].map[kPath].items)]))

\* return nil, err
ParseError(e) == [st |-> "err", t |-> Nil, err |-> e, mode |-> "none"]

\* return torrent, nil; mode is the branch of "length or files" that ran.
Parsed(t, mode) == [st |-> "ok", t |-> t, err |-> NoErr, mode |-> mode]

\* The fields set before the info dictionary is read.
parseTop(m) ==
  [ZeroTorrent EXCEPT
     !.Announce = m[kAnnounce].str,
     !.AnnounceList = IF Has(m, kAnnounceList, "list")
                      THEN parseTiers(m[kAnnounceList].items) ELSE <<>>,
     !.CreationDate = Int64Or(m, kCreationDate),
     !.Comment = StringOr(m, kComment),
     !.CreatedBy = StringOr(m, kCreatedBy),
     !.Encoding = StringOr(m, kEncoding)]

\* parseInfo with name read as an optional field.
parseInfo_optionalName(t, info) ==
  IF ~Has(info, kPieceLength, "int64")
  THEN ParseError(<<"missing or invalid piece length">>)
  ELSE IF ~Has(info, kPieces, "string")
  THEN ParseError(<<"missing or invalid pieces">>)
  ELSE LET t1 == [t EXCEPT !.Info.PieceLength = info[kPieceLength].num,
                           !.Info.Pieces = info[kPieces].str,
                           !.Info.Name = StringOr(info, kName)]
           private == Int64Or(info, kPrivate)
       IN IF Has(info, kLength, "int64")
          THEN Parsed([t1 EXCEPT !.Info.Length = info[kLength].num,
                                 !.Info.Private = private], "single")
          ELSE IF Has(info, kFiles, "list")
          THEN LET fs == parseFiles(info[kFiles].items, <<>>)
               IN IF fs.err # NoErr THEN ParseError(fs.err)
                  ELSE Parsed([t1 EXCEPT !.Info.Files = fs.files,
                                         !.Info.Private = private], "multi")
          ELSE ParseError(<<"torrent must have either length or files">>)

\* The fields set from the info dictionary, from piece length on.
parseInfo(t, info) ==
  IF ~Has(info, kPieceLength, "int64")
  THEN ParseError(<<"missing or invalid piece length">>)
  ELSE IF ~Has(info, kPieces, "string")
  THEN ParseError(<<"missing or invalid pieces">>)
  ELSE IF ~Has(info, kName, "string")
  THEN ParseError(<<"missing or invalid name">>)
  ELSE LET t1 == [t EXCEPT !.Info.PieceLength = info[kPieceLength].num,
                           !.Info.Pieces = info[kPieces].str,
                           !.Info.Name = info[kName].str]
           private == Int64Or(info, kPrivate)
       IN IF Has(info, kLength, "int64")
          THEN Parsed([t1 EXCEPT !.Info.Length = info[kLength].num,
                                 !.Info.Private = private], "single")
          ELSE IF Has(info, kFiles, "list")
          THEN LET fs == parseFiles(info[kFiles].items, <<>>)
               IN IF fs.err # NoErr THEN ParseError(fs.err)
                  ELSE Parsed([t1 EXCEPT !.Info.Files = fs.files,
                                         !.Info.Private = private], "multi")
          ELSE ParseError(<<"torrent must have either length or files">>)

Parse(d) ==
  LET r == Decode(d)
  IN IF r.st = "panic"
     THEN [st |-> "panic", t |-> Nil, err |-> r.err, mode |-> "none"]
     ELSE IF r.err # NoErr THEN ParseError(r.err)
     ELSE IF r.val.tag # "map"
     THEN ParseError(<<"torrent file is not a dictionary">>)
     ELSE IF ~Has(r.val.map, kAnnounce, "string")
     THEN ParseError(<<"missing or invalid announce URL">>)
     ELSE IF ~Has(r.val.map, kInfo, "map")
     THEN ParseError(<<"missing or invalid info dictionary">>)
     ELSE parseInfo(parseTop(r.val.map), r.val.map[kInfo].map)

\* The loop of InfoHash over t.Info.Files; path is a []string.
RECURSIVE fileDicts(_)
fileDicts(files) ==
  IF files = <<>> THEN <<>>
  ELSE <<BDict((kLength :> BInt(files[1].Length))
               @@ (kPath :> BStrings(files[1].Path)))>>
       \o fileDicts(Tail(files))

\* The map that InfoHash builds and encodes.
InfoDict(t) ==
  LET base == (kPieceLength :> BInt(t.Info.PieceLength))
              @@ (kPieces :> BStr(t.Info.Pieces))
              @@ (kName :> BStr(t.Info.Name))
      sized == IF I64Less(FromInt(0), t.Info.Length)
               THEN MapSet(base, kLength, BInt(t.Info.Length))
               ELSE MapSet(base, kFiles, BList(fileDicts(t.Info.Files)))
  IN IF t.Info.Private # FromInt(0)
     THEN MapSet(sized, kPrivate, BInt(t.Info.Private))
     ELSE sized

\* sha1.Sum: the digest is kept as a term of its argument, so that two
\* digests are equal exactly when the hashed bytes are.
Sha1(b) == [sha1 |-> b]

\* [20]byte{}
ZeroHash == [zero |-> 20]

\* InfoHash; infoDict and encoded are its locals, kept beside its results.
InfoHash(t, enum) ==
  LET e == EncodeDict(InfoDict(t), enum)
  IN IF e.err # NoErr
     THEN [st |-> "err", sum |-> ZeroHash, err |-> e.err,
           infoDict |-> InfoDict(t), encoded |-> <<>>]
     ELSE [st |-> "ok", sum |-> Sha1(e.bytes), err |-> NoErr,
           infoDict |-> InfoDict(t), encoded |-> e.bytes]

(***************************************************************************)
(* Torrent buffers                                                         *)
(***************************************************************************)
\* The most elements of info.files.
MaxFiles == 2

\* <len>:<bytes> of a byte string shorter than 100 bytes, written out.
LenDigits(n) ==
  IF n < 10 THEN <<DigitSeq[n + 1]>>
  ELSE <<DigitSeq[(n \div 10) + 1], DigitSeq[(n % 10) + 1]>>

Bstring(s) == LenDigits(Len(s)) \o <<":">> \o s

\* A key and the bencoding of its value.
Entry(k, v) == Bstring(k) \o v

\* The elements of info.files that the buffers are built of.
FileKinds == {"one", "two", "noLength", "noPath", "mixedPath", "notDict"}

FileBytes(f) ==
  IF f = "one"
  THEN <<"d">> \o Entry(kLength, <<"i", "5", "e">>)
       \o Entry(kPath, <<"l", "1", ":", "a", "e">>) \o <<"e">>
  ELSE IF f = "two"
  THEN <<"d">> \o Entry(kLength, <<"i", "0", "e">>)
       \o Entry(kPath, <<"l", "1", ":", "a", "1", ":", "b", "e">>) \o <<"e">>
  ELSE IF f = "noLength"
  THEN <<"d">> \o Entry(kPath, <<"l", "1", ":", "a", "e">>) \o <<"e">>
  ELSE IF f = "noPath"
  THEN <<"d">> \o Entry(kLength, <<"i", "5", "e">>) \o <<"e">>
  ELSE IF f = "mixedPath"
  THEN <<"d">> \o Entry(kLength, <<"i", "5", "e">>)
       \o Entry(kPath, <<"l", "i", "1", "e", "1", ":", "a", "e">>) \o <<"e">>
  ELSE <<"i", "7", "e">>

FilesOpts ==
  {[kind |-> "absent", entries |-> <<>>], [kind |-> "string", entries |-> <<>>]}
  \cup {[kind |-> "list", entries |-> es] : es \in SeqsUpTo(FileKinds, MaxFiles)}

FilesBytes(f) ==
  IF f.kind = "absent" THEN <<>>
  ELSE IF f.kind = "string" THEN Entry(kFiles, <<"1", ":", "a">>)
  ELSE Entry(kFiles, <<"l">>
                     \o Concat([i \in 1..Len(f.entries) |-> FileBytes(f.entries[i])])
                     \o <<"e">>)

LengthOpts == {"absent", "zero", "positive", "negative", "string"}

LengthBytes(l) ==
  IF l = "absent" THEN <<>>
  ELSE IF l = "zero" THEN Entry(kLength, <<"i", "0", "e">>)
  ELSE IF l = "positive" THEN Entry(kLength, <<"i", "4", "1", "e">>)
  ELSE IF l = "negative" THEN Entry(kLength, <<"i", "-", "1", "e">>)
  ELSE Entry(kLength, <<"1", ":", "a">>)

PrivateOpts == {"absent", "zero", "one", "string"}

PrivateBytes(p) ==
  IF p = "absent" THEN <<>>
  ELSE IF p = "zero" THEN Entry(kPrivate, <<"i", "0", "e">>)
  ELSE IF p = "one" THEN Entry(kPrivate, <<"i", "1", "e">>)
  ELSE Entry(kPrivate, <<"1", ":", "a">>)

\* What is wrong with a required field of the info dictionary.
Defects ==
  {"none", "noPieceLength", "pieceLengthString", "noPieces", "piecesInt",
   "noName", "nameInt"}

NameBytes(d) ==
  IF d = "noName" THEN <<>>
  ELSE IF d = "nameInt" THEN Entry(kName, <<"i", "1", "e">>)
  ELSE Entry(kName, <<"1", ":", "n">>)

PieceLengthBytes(d) ==
  IF d = "noPieceLength" THEN <<>>
  ELSE IF d = "pieceLengthString" THEN Entry(kPieceLength, <<"1", ":", "a">>)
  ELSE Entry(kPieceLength, <<"i", "1", "6", "e">>)

PiecesBytes(d) ==
  IF d = "noPieces" THEN <<>>
  ELSE IF d = "piecesInt" THEN Entry(kPieces, <<"i", "1", "e">>)
  ELSE Entry(kPieces, <<"2", ":", "a", "b">>)

\* The info dictionary of a buffer: its entries in ascending key order, or in
\* descending order when the buffer is not sorted.
InfoEntries(p) ==
  <<FilesBytes(p.files), LengthBytes(p.length), NameBytes(p.defect),
    PieceLengthBytes(p.defect), PiecesBytes(p.defect), PrivateBytes(p.private),
    IF p.extra THEN Entry(<<"x">>, <<"0", ":">>) ELSE <<>>>>

InfoBytes(p) ==
  <<"d">> \o Concat(IF p.sorted THEN InfoEntries(p) ELSE Reverse(InfoEntries(p)))
  \o <<"e">>

\* The top level of a buffer.
Tops ==
  {"plain", "full", "mistyped", "noAnnounce", "announceInt", "noInfo",
   "infoString", "notDict", "truncated", "empty"}

TorrentBytes(p) ==
  LET announce == Entry(kAnnounce, <<"1", ":", "u">>)
      info == Entry(kInfo, InfoBytes(p))
  IN IF p.top = "plain" THEN <<"d">> \o announce \o info \o <<"e">>
     ELSE IF p.top = "full"
     THEN <<"d">> \o announce
          \o Entry(kAnnounceList,
                   <<"l", "l", "1", ":", "u", "1", ":", "v", "e", "l", "e", "e">>)
          \o Entry(kComment, <<"1", ":", "c">>)
          \o Entry(kCreatedBy, <<"1", ":", "b">>)
          \o Entry(kCreationDate, <<"i", "9", "e">>)
          \o Entry(kEncoding, <<"1", ":", "e">>)
          \o info \o <<"e">>
     ELSE IF p.top = "mistyped"
     THEN <<"d">> \o announce
          \o Entry(kAnnounceList,
                   <<"l", "i", "1", "e", "l", "i", "2", "e", "1", ":", "v", "e", "e">>)
          \o Entry(kComment, <<"i", "1", "e">>)
          \o Entry(kCreatedBy, <<"l", "e">>)
          \o Entry(kCreationDate, <<"1", ":", "a">>)
          \o Entry(kEncoding, <<"d", "e">>)
          \o info \o <<"e">>
     ELSE IF p.top = "noAnnounce" THEN <<"d">> \o info \o <<"e">>
     ELSE IF p.top = "announceInt"
     THEN <<"d">> \o Entry(kAnnounce, <<"i", "1", "e">>) \o info \o <<"e">>
     ELSE IF p.top = "noInfo" THEN <<"d">> \o announce \o <<"e">>
     ELSE IF p.top = "infoString"
     THEN <<"d">> \o announce \o Entry(kInfo, <<"1", ":", "a">>) \o <<"e">>
     ELSE IF p.top = "notDict" THEN <<"l">> \o InfoBytes(p) \o <<"e">>
     ELSE IF p.top = "truncated" THEN <<"d">> \o announce \o info
     ELSE <<>>

\* The buffers: every make-up of the info dictionary under a plain top level,
\* every top level with every defect of a required field, and some unsorted
\* info dictionaries.
TorrentParts ==
  [kind : {"torrent"}, top : {"plain"}, defect : {"none"}, sorted : {TRUE},
   files : FilesOpts, length : LengthOpts, private : PrivateOpts,
   extra : BOOLEAN]
  \cup
  [kind : {"torrent"}, top : Tops, defect : Defects, sorted : {TRUE},
   files : {[kind |-> "absent", entries |-> <<>>]}, length : {"positive"},
   private : {"absent"}, extra : {FALSE}]
  \cup
  [kind : {"torrent"}, top : {"plain"}, defect : {"none"}, sorted : {FALSE},
   files : {[kind |-> "absent", entries |-> <<>>],
            [kind |-> "list", entries |-> <<"one">>]},
   length : {"absent", "positive"}, private : {"absent", "one"},
   extra : {FALSE}]

(***************************************************************************)
(* The specification of Parse and InfoHash                                 *)
(***************************************************************************)
InitTorrent ==
  /\ pc = "Parse"
  /\ parts \in TorrentParts
  /\ data = TorrentBytes(parts)
  /\ torrent = None
  /\ infoHash = None
  /\ order = Nil
  /\ result = None
  /\ tail = <<>>
  /\ result2 = None
  /\ dict = Nil
  /\ encoded = None
  /\ decoded = None
  /\ again = None
  /\ pieceIndex = Nil
  /\ pieceHash = None
  /\ pieceLength = None
  /\ handshake = Nil
  /\ serialized = None
  /\ inHandshake = None
  /\ args = Nil
  /\ conn = Nil
  /\ remote = Nil
  /\ ret = None
  /\ stack = Nil
  /\ retval = None
  /\ msgs = Nil
  /\ frames = Nil
  /\ stream = Nil
  /\ received = Nil
  /\ piece = Nil
  /\ heap = Nil
  /\ compact = Nil
  /\ peers = Nil
  /\ response = Nil
  /\ requested = Nil
  /\ task = Nil
  /\ channel = Nil
  /\ timer = Nil
  /\ opened = Nil

\* torrent, err := Parse(data)
ParseCall ==
  /\ pc = "Parse"
  /\ torrent' = Parse(data)
  /\ pc' = "parsed"
  /\ UNCHANGED <<wireVars, peerVars, pieceIndex, pieceHash, pieceLength, again, parts, data, result, tail, result2, dict, order, encoded,
                 decoded, infoHash>>

\* hash, err := torrent.InfoHash(), the range over the map in any order
InfoHashCall ==
  /\ pc = "parsed"
  /\ torrent.st = "ok"
  /\ \E enum \in Orders :
       /\ order' = enum
       /\ infoHash' = InfoHash(torrent.t, enum)
  /\ pc' = "hashed"
  /\ UNCHANGED <<wireVars, peerVars, pieceIndex, pieceHash, pieceLength, again, parts, data, result, tail, result2, dict, encoded, decoded,
                 torrent>>

NextTorrent == ParseCall \/ InfoHashCall

SpecTorrent == InitTorrent /\ [][NextTorrent]_vars

(***************************************************************************)
(* Properties of InfoHash                                                  *)
(***************************************************************************)
\* C9: for every TorrentFile that Parse returns, the dictionary InfoHash
\* encodes has exactly the keys piece length, pieces and name, plus length
\* and not files when Parse took the single-file branch, or files and not
\* length when it took the multi-file branch, plus private exactly when the
\* private flag is not zero.
InfoHashDictKeys ==
  pc = "hashed" =>
    DOMAIN infoHash.infoDict =
      {kPieceLength, kPieces, kName}
      \cup (IF torrent.mode = "single" THEN {kLength} ELSE {kFiles})
      \cup (IF torrent.t.Info.Private # FromInt(0) THEN {kPrivate} ELSE {})

\* The info dictionary of the buffer is in ascending key order and holds only
\* piece length, pieces and name, an integer length or a list of files of an
\* integer length and a path of strings each, and maybe an integer private.
CanonicalInfo(p) ==
  /\ p.top \in {"plain", "full", "mistyped"}
  /\ p.sorted /\ ~p.extra /\ p.defect = "none"
  /\ \/ p.length \in {"zero", "positive", "negative"} /\ p.files.kind = "absent"
     \/ /\ p.length = "absent" /\ p.files.kind = "list"
        /\ \A i \in 1..Len(p.files.entries) : p.files.entries[i] \in {"one", "two"}
  /\ p.private \in {"absent", "zero", "one"}

\* C10: for every buffer whose info dictionary is canonical and holds only
\* the keys InfoHash knows, Parse succeeds, the bytes InfoHash encodes are the
\* bytes of the info dictionary in the buffer, and the digest is their SHA-1.
InfoHashOfOriginalBytes ==
  CanonicalInfo(parts) =>
    /\ pc = "parsed" => torrent.st = "ok"
    /\ pc = "hashed" => /\ infoHash.st = "ok"
                        /\ infoHash.encoded = InfoBytes(parts)
                        /\ infoHash.sum = Sha1(InfoBytes(parts))

(***************************************************************************)
(* The specification of repeated calls of InfoHash                         *)
(***************************************************************************)
\* The entries of Info.Files the TorrentFiles are built of.
FileInfos ==
  {[Length |-> FromInt(5), Path |-> << <<"a">> >>],
   [Length |-> FromInt(0), Path |-> << <<"a">>, <<"b">> >>],
   [Length |-> MaxInt64, Path |-> <<>>]}

\* TorrentFiles as a caller may hold them, parsed or built field by field.
HashedTorrents ==
  {[ZeroTorrent EXCEPT !.Announce = <<"u">>,
                       !.Info = [PieceLength |-> FromInt(16),
                                 Pieces |-> <<"a", "b">>, Name |-> <<"n">>,
                                 Length |-> l, Files |-> fs, Private |-> p]] :
     l \in {FromInt(0), FromInt(41), FromInt(-1)},
     fs \in SeqsUpTo(FileInfos, MaxFiles),
     p \in {FromInt(0), FromInt(1), FromInt(-1)}}

InitInfoHash ==
  /\ pc = "parsed"
  /\ \E t \in HashedTorrents : torrent = Parsed(t, "none")
  /\ infoHash = None
  /\ again = None
  /\ order = Nil
  /\ parts = Nil
  /\ data = <<>>
  /\ result = None
  /\ tail = <<>>
  /\ result2 = None
  /\ dict = Nil
  /\ encoded = None
  /\ decoded = None
  /\ pieceIndex = Nil
  /\ pieceHash = None
  /\ pieceLength = None
  /\ handshake = Nil
  /\ serialized = None
  /\ inHandshake = None
  /\ args = Nil
  /\ conn = Nil
  /\ remote = Nil
  /\ ret = None
  /\ stack = Nil
  /\ retval = None
  /\ msgs = Nil
  /\ frames = Nil
  /\ stream = Nil
  /\ received = Nil
  /\ piece = Nil
  /\ heap = Nil
  /\ compact = Nil
  /\ peers = Nil
  /\ response = Nil
  /\ requested = Nil
  /\ task = Nil
  /\ channel = Nil
  /\ timer = Nil
  /\ opened = Nil

\* Any later call of torrent.InfoHash() on the same TorrentFile, its range
\* over the map in any order again.
InfoHashAgain ==
  /\ pc = "hashed"
  /\ \E enum \in Orders :
       again' = [call |-> InfoHash(torrent.t, enum), enum |-> enum]
  /\ UNCHANGED <<wireVars, peerVars, pieceIndex, pieceHash, pieceLength, pc, parts, data, result, tail, result2, dict, order, encoded,
                 decoded, torrent, infoHash>>

NextInfoHash == InfoHashCall \/ InfoHashAgain

SpecInfoHash == InitInfoHash /\ [][NextInfoHash]_vars

\* C11: InfoHash is deterministic and idempotent: every later call on the same
\* TorrentFile, whatever the order in which the map is ranged over, encodes
\* the bytes and returns the digest of the first call, and no call changes a
\* field of the TorrentFile.
InfoHashIdempotent ==
  [][/\ pc \in {"parsed", "hashed"} => torrent' = torrent
     /\ pc = "hashed" /\ again' # None =>
          /\ infoHash' = infoHash
          /\ again'.call.st = infoHash.st
          /\ again'.call.encoded = infoHash.encoded
          /\ again'.call.sum = infoHash.sum
          /\ again'.call.err = infoHash.err]_vars

\* A second call that ranged over the map in another order than the first,
\* on a torrent of two files with a private flag.
InfoHashIdempotent_witness ==
  /\ pc = "hashed" /\ again # None
  /\ again.enum # order
  /\ torrent.t.Info.Length = FromInt(0) /\ Len(torrent.t.Info.Files) = 2
  /\ torrent.t.Info.Private # FromInt(0)

(***************************************************************************)
(* Properties of Parse                                                     *)
(***************************************************************************)
\* The required fields of the buffer that are missing or of the wrong type;
\* a buffer that does not decode has none that can be told.
WrongIn(p) ==
  IF p.top \in {"truncated", "empty"} THEN {}
  ELSE IF p.top = "notDict" THEN {"top"}
  ELSE IF p.top \in {"noInfo", "infoString"} THEN {"info"}
  ELSE (IF p.top \in {"noAnnounce", "announceInt"} THEN {"announce"} ELSE {})
       \cup (IF p.defect \in {"noPieceLength", "pieceLengthString"}
             THEN {"piece length"} ELSE {})
       \cup (IF p.defect \in {"noPieces", "piecesInt"} THEN {"pieces"} ELSE {})
       \cup (IF p.defect \in {"noName", "nameInt"} THEN {"name"} ELSE {})

\* The error that names a required field.
NamedError(f) ==
  IF f = "top" THEN <<"torrent file is not a dictionary">>
  ELSE IF f = "announce" THEN <<"missing or invalid announce URL">>
  ELSE IF f = "info" THEN <<"missing or invalid info dictionary">>
  ELSE IF f = "piece length" THEN <<"missing or invalid piece length">>
  ELSE IF f = "pieces" THEN <<"missing or invalid pieces">>
  ELSE <<"missing or invalid name">>

RequiredFields == {"top", "announce", "info", "piece length", "pieces", "name"}

\* C12: when a required field (the top-level dictionary, announce, info,
\* piece length, pieces, name) is missing or of the wrong type, Parse returns
\* no TorrentFile and one of the errors that name such a field; the errors of
\* two fields differ, and when exactly one field is wrong the error is the
\* one that names it.
ParseNamesTheWrongField ==
  /\ \A f, g \in RequiredFields : f # g => NamedError(f) # NamedError(g)
  /\ pc = "parsed" /\ WrongIn(parts) # {} =>
       /\ torrent.st = "err" /\ torrent.t = Nil
       /\ \E f \in WrongIn(parts) : torrent.err = NamedError(f)
       /\ \A f \in RequiredFields : WrongIn(parts) = {f} => torrent.err = NamedError(f)

\* Parse of a buffer with every optional field whose only flaw is a name that
\* is an integer.
ParseNamesTheWrongField_witness ==
  /\ pc = "parsed" /\ parts.top = "full" /\ parts.defect = "nameInt"
  /\ torrent.err = <<"missing or invalid name">>

\* C13: Parse succeeds only when exactly one of the keys length and files is
\* in the info dictionary; the TorrentFile it returns is in exactly one of
\* the single-file and the multi-file mode.
ParseLengthXorFiles ==
  pc = "parsed" /\ torrent.st = "ok" =>
    /\ (parts.length # "absent") # (parts.files.kind # "absent")
    /\ torrent.mode \in {"single", "multi"}

\* What a well-formed element of info.files says.
FileMeaning(f) ==
  IF f = "one" THEN [Length |-> FromInt(5), Path |-> << <<"a">> >>]
  ELSE [Length |-> FromInt(0), Path |-> << <<"a">>, <<"b">> >>]

\* The buffer is read in multi-file mode: no integer length, a list of files.
MultiFileInput(p) ==
  /\ p.top \in {"plain", "full", "mistyped"} /\ p.defect = "none"
  /\ p.length \in {"absent", "string"}
  /\ p.files.kind = "list"

\* C14: in multi-file mode, an element of info.files without an integer
\* length or without a path that is a list of strings makes Parse fail; when
\* Parse succeeds, Info.Files has one entry per element, in order, with the
\* element's length and all of its path segments.
ParseKeepsWholeFileList ==
  pc = "parsed" /\ MultiFileInput(parts) =>
    /\ (\E i \in 1..Len(parts.files.entries) :
          parts.files.entries[i] \notin {"one", "two"}) => torrent.st = "err"
    /\ torrent.st = "ok" =>
         /\ Len(torrent.t.Info.Files) = Len(parts.files.entries)
         /\ \A i \in 1..Len(parts.files.entries) :
              torrent.t.Info.Files[i] = FileMeaning(parts.files.entries[i])

(***************************************************************************)
(* PieceHash, NumPieces, PieceLength, TotalLength                          *)
(***************************************************************************)
\* The bytes of one SHA-1 digest in Info.Pieces.
HashLen == 20

\* The remainder of the magnitude with the decimal digits digs by d < 10^8.
RECURSIVE remDigits(_, _, _)
remDigits(digs, d, r) ==
  IF digs = <<>> THEN r
  ELSE remDigits(Tail(digs), d, (r * 10 + (Ord(digs[1]) - 48)) % d)

\* The remainder of the magnitude a by the magnitude b > 0.
RECURSIVE BigRem(_, _)
BigRem(a, b) ==
  IF b[1] = 0 /\ b[2] = 0 THEN <<0, 0, remDigits(MagDigits(a), b[3], 0)>>
  ELSE IF BigLess(a, b) THEN a
  ELSE BigRem(BigSub(a, b), b)

\* a % b of Go on int64 for b # 0: the remainder has the sign of a.
I64Rem(a, b) == I64(a.neg, BigRem(a.mag, b.mag))

\* The loop of TotalLength over Info.Files.
RECURSIVE sumLengths(_, _)
sumLengths(files, total) ==
  IF files = <<>> THEN total
  ELSE sumLengths(Tail(files), I64Add(total, files[1].Length))

TotalLength(t) ==
  IF I64Less(FromInt(0), t.Info.Length) THEN t.Info.Length
  ELSE sumLengths(t.Info.Files, FromInt(0))

NumPieces(t) == Len(t.Info.Pieces) \div HashLen

\* PieceHash with the test of the length of pieces left out.
PieceHash_unchecked(t, index) ==
  LET numPieces == Len(t.Info.Pieces) \div HashLen
  IN IF index.neg \/ ~I64Less(index, FromInt(numPieces))
     THEN [st |-> "err", hash |-> ZeroHash,
           err |-> <<"piece index out of range", index, numPieces>>]
     ELSE [st |-> "ok",
           hash |-> Slice(t.Info.Pieces, ToInt(index) * HashLen,
                          (ToInt(index) + 1) * HashLen),
           err |-> NoErr]

PieceHash(t, index) ==
  IF Len(t.Info.Pieces) % HashLen # 0
  THEN [st |-> "err", hash |-> ZeroHash,
        err |-> <<"pieces length is not a multiple of 20">>]
  ELSE LET numPieces == Len(t.Info.Pieces) \div HashLen
       IN IF index.neg \/ ~I64Less(index, FromInt(numPieces))
          THEN [st |-> "err", hash |-> ZeroHash,
                err |-> <<"piece index out of range", index, numPieces>>]
          ELSE [st |-> "ok",
                hash |-> Slice(t.Info.Pieces, ToInt(index) * HashLen,
                               (ToInt(index) + 1) * HashLen),
                err |-> NoErr]

\* PieceLength; the remainder by a piece length of zero is a run-time panic.
PieceLength(t, index) ==
  IF index.neg \/ ~I64Less(index, FromInt(NumPieces(t)))
  THEN [st |-> "ok", val |-> FromInt(0)]
  ELSE IF index = FromInt(NumPieces(t) - 1)
  THEN IF t.Info.PieceLength = FromInt(0)
       THEN [st |-> "panic", val |-> <<"integer divide by zero">>]
       ELSE IF I64Rem(TotalLength(t), t.Info.PieceLength) = FromInt(0)
       THEN [st |-> "ok", val |-> t.Info.PieceLength]
       ELSE [st |-> "ok", val |-> I64Rem(TotalLength(t), t.Info.PieceLength)]
  ELSE [st |-> "ok", val |-> t.Info.PieceLength]

(***************************************************************************)
(* The specification of PieceHash and PieceLength                          *)
(***************************************************************************)
\* The most whole digests in Info.Pieces.
MaxPieces == 2

\* The largest small index asked for.
MaxIndex == 3

\* The k-th digest: 20 bytes that differ from place to place and from digest
\* to digest.
Piece(k) == [i \in 1..HashLen |-> LowerSeq[((i + 7 * k) % 26) + 1]]

\* Info.Pieces of whole digests, and the same with bytes left over.
PiecesOpts ==
  LET whole(n) == Concat([k \in 1..n |-> Piece(k)])
  IN {whole(n) : n \in 0..MaxPieces}
     \cup {whole(n) \o <<"z">> : n \in 0..MaxPieces}
     \cup {SubSeq(whole(n), 1, HashLen * n - 1) : n \in 1..MaxPieces}

\* TorrentFiles as a caller may hold them, parsed or built field by field.
PieceTorrents ==
  {[ZeroTorrent EXCEPT !.Announce = <<"u">>,
                       !.Info = [PieceLength |-> pl, Pieces |-> ps,
                                 Name |-> <<"n">>, Length |-> l, Files |-> fs,
                                 Private |-> FromInt(0)]] :
     pl \in {FromInt(0), FromInt(16), FromInt(7), FromInt(-3), MaxInt64},
     ps \in PiecesOpts,
     l \in {FromInt(0), FromInt(41), FromInt(32), FromInt(-1)},
     fs \in SeqsUpTo(FileInfos, MaxFiles)}

\* The indices asked for: around the range of the pieces, and the ends of int.
Indices == {FromInt(i) : i \in (-1)..MaxIndex} \cup {MinInt64, MaxInt64}

InitPieces ==
  /\ pc = "parsed"
  /\ \E t \in PieceTorrents : torrent = Parsed(t, "none")
  /\ pieceIndex = Nil
  /\ pieceHash = None
  /\ pieceLength = None
  /\ infoHash = None
  /\ again = None
  /\ order = Nil
  /\ parts = Nil
  /\ data = <<>>
  /\ result = None
  /\ tail = <<>>
  /\ result2 = None
  /\ dict = Nil
  /\ encoded = None
  /\ decoded = None
  /\ handshake = Nil
  /\ serialized = None
  /\ inHandshake = None
  /\ args = Nil
  /\ conn = Nil
  /\ remote = Nil
  /\ ret = None
  /\ stack = Nil
  /\ retval = None
  /\ msgs = Nil
  /\ frames = Nil
  /\ stream = Nil
  /\ received = Nil
  /\ piece = Nil
  /\ heap = Nil
  /\ compact = Nil
  /\ peers = Nil
  /\ response = Nil
  /\ requested = Nil
  /\ task = Nil
  /\ channel = Nil
  /\ timer = Nil
  /\ opened = Nil

\* hash, err := torrent.PieceHash(index)
PieceHashCall ==
  /\ pc = "parsed"
  /\ \E i \in Indices :
       /\ pieceIndex' = i
       /\ pieceHash' = PieceHash(torrent.t, i)
  /\ pc' = "pieceHash"
  /\ UNCHANGED <<wireVars, peerVars, parts, data, result, tail, result2, dict, order, encoded,
                 decoded, torrent, infoHash, again, pieceLength>>

\* length := torrent.PieceLength(index)
PieceLengthCall ==
  /\ pc = "parsed"
  /\ \E i \in Indices :
       /\ pieceIndex' = i
       /\ pieceLength' = PieceLength(torrent.t, i)
  /\ pc' = "pieceLength"
  /\ UNCHANGED <<wireVars, peerVars, parts, data, result, tail, result2, dict, order, encoded,
                 decoded, torrent, infoHash, again, pieceHash>>

NextPieces == PieceHashCall \/ PieceLengthCall

SpecPieces == InitPieces /\ [][NextPieces]_vars

(***************************************************************************)
(* Properties of PieceHash and PieceLength                                 *)
(***************************************************************************)
\* The index lies in 0 .. n - 1.
InRange(i, n) == ~i.neg /\ I64Less(i, FromInt(n))

\* C15: when the length of pieces is not a multiple of 20, PieceHash fails
\* with the error of the pieces whatever the index; otherwise it fails with
\* the index error for an index below 0 or from len(pieces)/20 on, and
\* otherwise returns the bytes 20*index .. 20*index+19 of pieces.
PieceHashAsStated ==
  pc = "pieceHash" =>
    LET pieces == torrent.t.Info.Pieces
    IN IF Len(pieces) % 20 # 0
       THEN /\ pieceHash.st = "err"
            /\ pieceHash.err = <<"pieces length is not a multiple of 20">>
       ELSE IF ~InRange(pieceIndex, Len(pieces) \div 20)
       THEN /\ pieceHash.st = "err"
            /\ pieceHash.err[1] = "piece index out of range"
       ELSE /\ pieceHash.st = "ok"
            /\ pieceHash.hash =
                 [k \in 1..20 |-> pieces[20 * ToInt(pieceIndex) + k]]

\* The second digest asked of pieces of two whole digests.
PieceHashAsStated_witness ==
  /\ pc = "pieceHash"
  /\ Len(torrent.t.Info.Pieces) = 40 /\ pieceIndex = FromInt(1)
  /\ pieceHash.st = "ok" /\ pieceHash.hash = Piece(2)

\* Parse sets Length in single-file mode only and Files in multi-file mode
\* only; every other field may hold any value of its type.
ParseCanReturn(t) == t.Info.Length = FromInt(0) \/ t.Info.Files = <<>>

\* C16: for every TorrentFile that Parse can return and every index,
\* PieceLength returns a value: 0 for an index out of range, the piece length
\* for every index in range but the last, and for the last index the
\* remainder of TotalLength() by the piece length, or the piece length when
\* that remainder is 0.
PieceLengthAsStated ==
  pc = "pieceLength" /\ ParseCanReturn(torrent.t) =>
    LET t == torrent.t
        n == Len(t.Info.Pieces) \div 20
    IN /\ pieceLength.st = "ok"
       /\ pieceLength.val =
            IF ~InRange(pieceIndex, n) THEN FromInt(0)
            ELSE IF pieceIndex # FromInt(n - 1) THEN t.Info.PieceLength
            ELSE IF I64Rem(TotalLength(t), t.Info.PieceLength) # FromInt(0)
            THEN I64Rem(TotalLength(t), t.Info.PieceLength)
            ELSE t.Info.PieceLength

(***************************************************************************)
(* package peer: the handshake                                             *)
(*                                                                         *)
(* The bytes of the peer wire protocol are numbers, 0 to 255.              *)
(***************************************************************************)
\* The largest value of a byte.
MaxByte == 255

\* "BitTorrent protocol"
ProtocolIdentifier ==
  <<66, 105, 116, 84, 111, 114, 114, 101, 110, 116, 32, 112, 114, 111, 116,
    111, 99, 111, 108>>

HandshakeLength == 68

\* make([]byte, n), and the zero value of [n]byte
Zeros(n) == [i \in 1..n |-> 0]

\* copy(buf[at:], src) for at <= len(buf): as many bytes as fit.
Copy(buf, at, src) ==
  [i \in 1..Len(buf) |->
     IF i > at /\ i - at <= Len(src) THEN src[i - at] ELSE buf[i]]

\* Serialize: a slice of buf that starts past its end is a run-time panic.
Serialize(h) ==
  LET n == Len(h.Pstr)
      b0 == [Zeros(HandshakeLength) EXCEPT ![1] = n % (MaxByte + 1)]
      b1 == Copy(b0, 1, h.Pstr)
  IN IF 1 + n + 8 + 20 > HandshakeLength
     THEN [st |-> "panic", bytes |-> <<"slice bounds out of range">>]
     ELSE [st |-> "ok",
           bytes |-> Copy(Copy(Copy(b1, 1 + n, h.Reserved),
                               1 + n + 8, h.InfoHash),
                          1 + n + 8 + 20, h.PeerID)]

\* A reader: the bytes it still delivers, and the error it ends with.
Reader(bytes, end) == [bytes |-> bytes, end |-> end]

\* io.ReadFull(r, buf) for len(buf) = n > 0: n bytes, or the error of the
\* reader, io.ErrUnexpectedEOF when the reader ends with io.EOF after some
\* bytes.
ReadFull(r, n) ==
  IF Len(r.bytes) >= n
  THEN [err |-> NoErr, buf |-> SubSeq(r.bytes, 1, n),
        r |-> Reader(SubSeq(r.bytes, n + 1, Len(r.bytes)), r.end)]
  ELSE [err |-> IF r.bytes # <<>> /\ r.end = "EOF"
                THEN <<"unexpected EOF">> ELSE <<r.end>>,
        buf |-> r.bytes \o Zeros(n - Len(r.bytes)),
        r |-> Reader(<<>>, r.end)]

\* return nil, err; r is the reader as the call leaves it.
HandshakeError(e, r) == [st |-> "err", h |-> Nil, err |-> e, r |-> r]

\* ParseHandshake with the info hash taken one byte early.
ParseHandshake_shifted(r) ==
  LET l == ReadFull(r, 1)
  IN IF l.err # NoErr THEN HandshakeError(l.err, l.r)
     ELSE IF l.buf[1] = 0
     THEN HandshakeError(<<"protocol string length is 0">>, l.r)
     ELSE LET pstrLen == l.buf[1]
              b == ReadFull(l.r, pstrLen + 48)
          IN IF b.err # NoErr THEN HandshakeError(b.err, b.r)
             ELSE [st |-> "ok", err |-> NoErr, r |-> b.r,
                   h |-> [Pstr |-> SubSeq(b.buf, 1, pstrLen),
                          Reserved |-> SubSeq(b.buf, pstrLen + 1, pstrLen + 8),
                          InfoHash |-> SubSeq(b.buf, pstrLen + 8, pstrLen + 27),
                          PeerID |-> SubSeq(b.buf, pstrLen + 29, pstrLen + 48)]]

ParseHandshake(r) ==
  LET l == ReadFull(r, 1)
  IN IF l.err # NoErr THEN HandshakeError(l.err, l.r)
     ELSE IF l.buf[1] = 0
     THEN HandshakeError(<<"protocol string length is 0">>, l.r)
     ELSE LET pstrLen == l.buf[1]
              b == ReadFull(l.r, pstrLen + 48)
          IN IF b.err # NoErr THEN HandshakeError(b.err, b.r)
             ELSE [st |-> "ok", err |-> NoErr, r |-> b.r,
                   h |-> [Pstr |-> SubSeq(b.buf, 1, pstrLen),
                          Reserved |-> SubSeq(b.buf, pstrLen + 1, pstrLen + 8),
                          InfoHash |-> SubSeq(b.buf, pstrLen + 9, pstrLen + 28),
                          PeerID |-> SubSeq(b.buf, pstrLen + 29, pstrLen + 48)]]

NewHandshake(hash, peerID) ==
  [Pstr |-> ProtocolIdentifier, Reserved |-> Zeros(8),
   InfoHash |-> hash, PeerID |-> peerID]

\* The extension bits.
ExtensionDHT == 0

ExtensionExtensions == 5

ExtensionFast == 7

\* b | m for a mask m of one bit.
OrBit(b, m) == IF (b \div m) % 2 = 1 THEN b ELSE b + m

\* b & m != 0 for a mask m of one bit.
TestBit(b, m) == (b \div m) % 2 = 1

\* SetExtension with the bit of the extension protocol set in byte 7.
SetExtension_byte7(h, bit) ==
  IF bit = ExtensionDHT
  THEN [h EXCEPT !.Reserved[8] = OrBit(@, 1)]
  ELSE IF bit = ExtensionExtensions
  THEN [h EXCEPT !.Reserved[8] = OrBit(@, 32)]
  ELSE IF bit = ExtensionFast
  THEN [h EXCEPT !.Reserved[8] = OrBit(@, 128)]
  ELSE h

\* SetExtension; Reserved[k] of Go is Reserved[k + 1] here.
SetExtension(h, bit) ==
  IF bit = ExtensionDHT
  THEN [h EXCEPT !.Reserved[8] = OrBit(@, 1)]
  ELSE IF bit = ExtensionExtensions
  THEN [h EXCEPT !.Reserved[6] = OrBit(@, 32)]
  ELSE IF bit = ExtensionFast
  THEN [h EXCEPT !.Reserved[8] = OrBit(@, 128)]
  ELSE h

HasExtension(h, bit) ==
  IF bit = ExtensionDHT THEN TestBit(h.Reserved[8], 1)
  ELSE IF bit = ExtensionExtensions THEN TestBit(h.Reserved[6], 32)
  ELSE IF bit = ExtensionFast THEN TestBit(h.Reserved[8], 128)
  ELSE FALSE

(***************************************************************************)
(* The specification of Serialize and ParseHandshake                       *)
(***************************************************************************)
\* Info hashes and peer ids: all zero, the bytes of the test, all ones.
Hashes == {Zeros(20), [i \in 1..20 |-> i], [i \in 1..20 |-> MaxByte]}

PeerIDs == {Zeros(20), [i \in 1..20 |-> 20 + i]}

\* A protocol string of n bytes.
PstrOfLen(n) == [i \in 1..n |-> 65 + (i % 26)]

\* The extension bits asked for: the three that are known and one that is
\* not.
ExtensionBits == {ExtensionDHT, ExtensionExtensions, ExtensionFast, 3}

\* A handshake from NewHandshake, or one with a protocol string of its own.
InitHandshake ==
  /\ pc = "handshake"
  /\ args \in [infoHash : Hashes, peerID : PeerIDs]
  /\ \/ handshake = NewHandshake(args.infoHash, args.peerID)
     \/ \E n \in 0..(MaxByte + 1) :
          handshake = [NewHandshake(args.infoHash, args.peerID)
                         EXCEPT !.Pstr = PstrOfLen(n)]
  /\ serialized = None
  /\ inHandshake = None
  /\ conn = Nil
  /\ remote = Nil
  /\ ret = None
  /\ stack = Nil
  /\ retval = None
  /\ msgs = Nil
  /\ frames = Nil
  /\ stream = Nil
  /\ received = Nil
  /\ piece = Nil
  /\ heap = Nil
  /\ compact = Nil
  /\ peers = Nil
  /\ response = Nil
  /\ requested = Nil
  /\ task = Nil
  /\ channel = Nil
  /\ timer = Nil
  /\ opened = Nil
  /\ parts = Nil
  /\ data = <<>>
  /\ result = None
  /\ tail = <<>>
  /\ result2 = None
  /\ dict = Nil
  /\ order = Nil
  /\ encoded = None
  /\ decoded = None
  /\ torrent = None
  /\ infoHash = None
  /\ again = None
  /\ pieceIndex = Nil
  /\ pieceHash = None
  /\ pieceLength = None

\* The variables of the packages bencode and torrent.
fileVars ==
  <<parts, data, result, tail, result2, dict, order, encoded, decoded, torrent,
    infoHash, again, pieceIndex, pieceHash, pieceLength>>

\* h.SetExtension(bit)
SetExtensionCall ==
  /\ pc = "handshake"
  /\ \E bit \in ExtensionBits : handshake' = SetExtension(handshake, bit)
  /\ UNCHANGED <<pc, serialized, inHandshake, args, conn, remote, ret, fileVars,
               wireVars>>

\* buf := h.Serialize()
SerializeCall ==
  /\ pc = "handshake"
  /\ serialized' = Serialize(handshake)
  /\ pc' = "serialized"
  /\ UNCHANGED <<handshake, inHandshake, args, conn, remote, ret, fileVars,
               wireVars>>

\* parsed, err := ParseHandshake(bytes.NewReader(buf))
ParseHandshakeCall ==
  /\ pc = "serialized"
  /\ serialized.st = "ok"
  /\ inHandshake' = ParseHandshake(Reader(serialized.bytes, "EOF"))
  /\ pc' = "reparsed"
  /\ UNCHANGED <<handshake, serialized, args, conn, remote, ret, fileVars,
               wireVars>>

NextHandshake == SetExtensionCall \/ SerializeCall \/ ParseHandshakeCall

SpecHandshake == InitHandshake /\ [][NextHandshake]_vars

(***************************************************************************)
(* Properties of the handshake                                             *)
(***************************************************************************)
\* C19: for a protocol string of 1 to 255 bytes, Serialize returns exactly
\* 1 + pstrlen + 48 bytes: the length byte, the whole protocol string, the 8
\* reserved bytes, the info hash and the peer id.
SerializeWholeHandshake ==
  pc = "serialized" /\ Len(handshake.Pstr) \in 1..255 =>
    /\ serialized.st = "ok"
    /\ Len(serialized.bytes) = 1 + Len(handshake.Pstr) + 48
    /\ serialized.bytes = <<Len(handshake.Pstr)>> \o handshake.Pstr
                          \o handshake.Reserved \o handshake.InfoHash
                          \o handshake.PeerID

\* C20: a handshake built by NewHandshake, whatever its info hash, peer id
\* and extension bits, serializes to exactly 68 bytes with first byte 19, and
\* ParseHandshake of these bytes returns the same protocol string, reserved
\* bytes, info hash and peer id.
HandshakeRoundTrip ==
  handshake # Nil /\ handshake.Pstr = ProtocolIdentifier =>
    /\ pc \in {"serialized", "reparsed"} =>
         /\ serialized.st = "ok"
         /\ Len(serialized.bytes) = 68
         /\ serialized.bytes[1] = 19
    /\ pc = "reparsed" =>
         /\ inHandshake.st = "ok"
         /\ inHandshake.h.Pstr = handshake.Pstr
         /\ inHandshake.h.Reserved = handshake.Reserved
         /\ inHandshake.h.InfoHash = handshake.InfoHash
         /\ inHandshake.h.PeerID = handshake.PeerID

\* The handshake of the test with all three extension bits set, serialized
\* and parsed again.
HandshakeRoundTrip_witness ==
  /\ pc = "reparsed"
  /\ handshake.Pstr = ProtocolIdentifier
  /\ handshake.InfoHash = [i \in 1..20 |-> i]
  /\ handshake.Reserved = <<0, 0, 0, 0, 0, 32, 0, 129>>
  /\ inHandshake.st = "ok"

(***************************************************************************)
(* PerformHandshake                                                        *)
(***************************************************************************)
\* bytes.Equal on the first 19 bytes only.
bytesEqual_prefix(a, b) == SubSeq(a, 1, 19) = SubSeq(b, 1, 19)

\* bytes.Equal
bytesEqual(a, b) == a = b

\* conn.Close() forgotten.
Close_forgotten(c) == c

\* conn.Close()
Close(c) == [c EXCEPT !.state = "closed"]

\* return h, conn, err; the connection returned is the one dialed.
Returns(hs, c, e) == [h |-> hs, conn |-> c, err |-> e]

TheConn == [tag |-> "net.Conn"]

\* What the remote peer does: whether it accepts the connection, whether the
\* write to it fails, the handshake it answers with, how many bytes of the
\* answer arrive and the error the read meets after them.
RemoteWire(rm) ==
  <<Len(rm.pstr)>> \o rm.pstr \o rm.reserved \o rm.hash \o rm.peerID \o <<7>>

RemoteBytes(rm) == SubSeq(RemoteWire(rm), 1, rm.cut)

\* The hash with byte k changed.
Flip(hash, k) == [hash EXCEPT ![k] = (@ + 1) % (MaxByte + 1)]

Remotes(expected) ==
  LET answers ==
        {rm \in [accepts : {TRUE}, writeFails : {FALSE},
                 pstr : {ProtocolIdentifier, <<66, 84>>, <<>>},
                 reserved : {Zeros(8)},
                 hash : {expected} \cup {Flip(expected, k) : k \in 1..20},
                 peerID : {[i \in 1..20 |-> 40 + i]},
                 cut : 0..70, end : {"EOF", "i/o timeout"}] :
           rm.cut \in {0, 1, 2, Len(rm.pstr) + 48, Len(rm.pstr) + 49,
                       Len(rm.pstr) + 50}}
  IN answers
     \cup {[rm EXCEPT !.accepts = FALSE] : rm \in {a \in answers : a.cut = 0}}
     \cup {[rm EXCEPT !.writeFails = TRUE] : rm \in {a \in answers : a.cut = 0}}

InitPerform ==
  /\ pc = "PerformHandshake"
  /\ args \in [infoHash : Hashes, peerID : PeerIDs]
  /\ remote \in Remotes(args.infoHash)
  /\ conn = Nil
  /\ ret = None
  /\ stack = Nil
  /\ retval = None
  /\ msgs = Nil
  /\ frames = Nil
  /\ stream = Nil
  /\ received = Nil
  /\ piece = Nil
  /\ heap = Nil
  /\ compact = Nil
  /\ peers = Nil
  /\ response = Nil
  /\ requested = Nil
  /\ task = Nil
  /\ channel = Nil
  /\ timer = Nil
  /\ opened = Nil
  /\ handshake = Nil
  /\ serialized = None
  /\ inHandshake = None
  /\ parts = Nil
  /\ data = <<>>
  /\ result = None
  /\ tail = <<>>
  /\ result2 = None
  /\ dict = Nil
  /\ order = Nil
  /\ encoded = None
  /\ decoded = None
  /\ torrent = None
  /\ infoHash = None
  /\ again = None
  /\ pieceIndex = Nil
  /\ pieceHash = None
  /\ pieceLength = None

\* net.DialTimeout and conn.SetDeadline
Dial ==
  /\ pc = "PerformHandshake"
  /\ IF remote.accepts
     THEN /\ conn' = [state |-> "open", deadline |-> TRUE, out |-> <<>>,
                      in |-> Reader(RemoteBytes(remote), remote.end)]
          /\ pc' = "send"
          /\ ret' = ret
     ELSE /\ ret' = Returns(Nil, Nil, <<"failed to connect to peer",
                                        "connection refused">>)
          /\ pc' = "returned"
          /\ conn' = conn
  /\ UNCHANGED <<handshake, serialized, inHandshake, args, remote, fileVars,
               wireVars>>

\* outHandshake := NewHandshake(infoHash, peerID) and the write of its bytes
Send ==
  /\ pc = "send"
  /\ handshake' = NewHandshake(args.infoHash, args.peerID)
  /\ serialized' = Serialize(handshake')
  /\ IF remote.writeFails
     THEN /\ conn' = Close(conn)
          /\ ret' = Returns(Nil, Nil, <<"failed to send handshake",
                                        "broken pipe">>)
          /\ pc' = "returned"
     ELSE /\ conn' = [conn EXCEPT !.out = serialized'.bytes]
          /\ ret' = ret
          /\ pc' = "read"
  /\ UNCHANGED <<inHandshake, args, remote, fileVars,
               wireVars>>

\* inHandshake, err := ParseHandshake(conn)
Receive ==
  /\ pc = "read"
  /\ inHandshake' = ParseHandshake(conn.in)
  /\ IF inHandshake'.err # NoErr
     THEN /\ conn' = Close([conn EXCEPT !.in = inHandshake'.r])
          /\ ret' = Returns(Nil, Nil, Wrap("failed to read handshake",
                                           inHandshake'.err))
          /\ pc' = "returned"
     ELSE /\ conn' = [conn EXCEPT !.in = inHandshake'.r]
          /\ ret' = ret
          /\ pc' = "verify"
  /\ UNCHANGED <<handshake, serialized, args, remote, fileVars,
               wireVars>>

\* The comparison of the info hashes, and the return with the deadline of the
\* connection reset.
Verify ==
  /\ pc = "verify"
  /\ IF ~bytesEqual(inHandshake.h.InfoHash, args.infoHash)
     THEN /\ conn' = Close(conn)
          /\ ret' = Returns(Nil, Nil, <<"info hash mismatch">>)
     ELSE /\ conn' = [conn EXCEPT !.deadline = FALSE]
          /\ ret' = Returns(inHandshake.h, TheConn, NoErr)
  /\ pc' = "returned"
  /\ UNCHANGED <<handshake, serialized, inHandshake, args, remote, fileVars,
               wireVars>>

NextPerform == Dial \/ Send \/ Receive \/ Verify

SpecPerform == InitPerform /\ [][NextPerform]_vars

(***************************************************************************)
(* Properties of PerformHandshake                                          *)
(***************************************************************************)
\* The remote peer accepted the connection, took the handshake and answered
\* with a whole handshake of its own.
WholeAnswer ==
  /\ remote.accepts
  /\ ~remote.writeFails
  /\ remote.pstr # <<>>
  /\ remote.cut >= Len(remote.pstr) + 49

MismatchError == <<"info hash mismatch">>

\* C17: PerformHandshake returns success only if the info hash of the remote
\* handshake equals the expected one in all 20 bytes; a whole remote handshake
\* whose hash differs in any byte makes it return the info-hash-mismatch
\* error, no handshake and no connection.
PerformHandshakeChecksInfoHash ==
  pc = "returned" =>
    /\ ret.err = NoErr =>
         /\ \A k \in 1..20 : remote.hash[k] = args.infoHash[k]
         /\ ret.h.InfoHash = args.infoHash
    /\ (WholeAnswer /\ \E k \in 1..20 : remote.hash[k] # args.infoHash[k]) =>
         /\ ret.err = MismatchError
         /\ ret.h = Nil
         /\ ret.conn = Nil

PerformHandshakeChecksInfoHash_witness ==
  /\ pc = "returned"
  /\ WholeAnswer
  /\ remote.hash = Flip(args.infoHash, 20)
  /\ ret.err = MismatchError

\* C18: on every failure of PerformHandshake after the connection was opened
\* the connection is closed when the error is returned, with no handshake and
\* no connection; a connection is returned only with a nil error, and open.
PerformHandshakeClosesOnFailure ==
  pc = "returned" =>
    /\ ret.err # NoErr =>
         /\ ret.conn = Nil
         /\ ret.h = Nil
         /\ conn # Nil => conn.state = "closed"
    /\ ret.conn # Nil =>
         /\ ret.err = NoErr
         /\ conn.state = "open"
    /\ ret.err = NoErr => ret.conn = TheConn

PerformHandshakeClosesOnFailure_witness ==
  /\ pc = "returned"
  /\ conn # Nil
  /\ conn.state = "closed"
  /\ ret.err = <<"failed to read handshake", "protocol string length is 0">>

(***************************************************************************)
(* Properties of ParseHandshake on the bytes of the remote peer            *)
(***************************************************************************)
\* The errors of a read that the stream ended or failed.
IOErrors == {<<"EOF">>, <<"unexpected EOF">>, <<"i/o timeout">>}

\* The bytes of w from position a on.
From(w, a) == SubSeq(w, a, Len(w))

\* C21: ParseHandshake reads one length byte, fails with the error of a zero
\* protocol length when it is 0, and otherwise reads exactly pstrlen + 48
\* further bytes and no more, which it assigns in order to the protocol
\* string, the reserved bytes, the info hash and the peer id; a stream that
\* ends before 1 + pstrlen + 48 bytes gives an I/O error and no handshake.
ParseHandshakeAsStated ==
  inHandshake # None =>
    LET w == RemoteBytes(remote)
        n == w[1]
    IN IF w = <<>>
       THEN inHandshake.err \in IOErrors /\ inHandshake.h = Nil
       ELSE IF n = 0
       THEN /\ inHandshake.err = <<"protocol string length is 0">>
            /\ inHandshake.h = Nil
            /\ inHandshake.r.bytes = From(w, 2)
       ELSE IF Len(w) < 1 + n + 48
       THEN inHandshake.err \in IOErrors /\ inHandshake.h = Nil
       ELSE /\ inHandshake.err = NoErr
            /\ inHandshake.h = [Pstr |-> SubSeq(w, 2, 1 + n),
                                Reserved |-> SubSeq(w, 2 + n, 9 + n),
                                InfoHash |-> SubSeq(w, 10 + n, 29 + n),
                                PeerID |-> SubSeq(w, 30 + n, 49 + n)]
            /\ inHandshake.r.bytes = From(w, 50 + n)

\* A whole handshake followed by one more byte, which stays in the stream.
ParseHandshakeAsStated_witness ==
  /\ inHandshake # None
  /\ inHandshake.err = NoErr
  /\ remote.pstr = <<66, 84>>
  /\ remote.hash = args.infoHash
  /\ args.infoHash # Zeros(20)
  /\ inHandshake.r.bytes = <<7>>

(***************************************************************************)
(* The specification of SetExtension and HasExtension                      *)
(***************************************************************************)
\* The most calls of SetExtension on one handshake.
MaxCalls == 3

\* The reserved bytes a handshake starts with: none set, all set, the DHT bit
\* alone, and bits that no extension names.
ReservedOpts ==
  {Zeros(8), [i \in 1..8 |-> MaxByte], <<0, 0, 0, 0, 0, 0, 0, 1>>,
   <<0, 0, 0, 0, 0, 16, 0, 4>>}

\* args keeps the handshake as it was and the bits of the calls made on it.
InitExtensions ==
  /\ pc = "extensions"
  /\ \E r \in ReservedOpts :
       handshake = [NewHandshake([i \in 1..20 |-> i], [i \in 1..20 |-> 20 + i])
                      EXCEPT !.Reserved = r]
  /\ args = [h0 |-> handshake, calls |-> <<>>]
  /\ serialized = None
  /\ inHandshake = None
  /\ conn = Nil
  /\ remote = Nil
  /\ ret = None
  /\ stack = Nil
  /\ retval = None
  /\ msgs = Nil
  /\ frames = Nil
  /\ stream = Nil
  /\ received = Nil
  /\ piece = Nil
  /\ heap = Nil
  /\ compact = Nil
  /\ peers = Nil
  /\ response = Nil
  /\ requested = Nil
  /\ task = Nil
  /\ channel = Nil
  /\ timer = Nil
  /\ opened = Nil
  /\ parts = Nil
  /\ data = <<>>
  /\ result = None
  /\ tail = <<>>
  /\ result2 = None
  /\ dict = Nil
  /\ order = Nil
  /\ encoded = None
  /\ decoded = None
  /\ torrent = None
  /\ infoHash = None
  /\ again = None
  /\ pieceIndex = Nil
  /\ pieceHash = None
  /\ pieceLength = None

\* h.SetExtension(bit), one more time
SetExtensionAgain ==
  /\ pc = "extensions"
  /\ Len(args.calls) < MaxCalls
  /\ \E bit \in ExtensionBits :
       /\ handshake' = SetExtension(handshake, bit)
       /\ args' = [args EXCEPT !.calls = Append(@, bit)]
  /\ UNCHANGED <<pc, serialized, inHandshake, conn, remote, ret, fileVars,
               wireVars>>

NextExtensions == SetExtensionAgain

SpecExtensions == InitExtensions /\ [][NextExtensions]_vars

(***************************************************************************)
(* Properties of the extension bits                                        *)
(***************************************************************************)
\* The bit an extension names: reserved byte (counted from 1) and mask.
Designated ==
  [x \in {ExtensionDHT, ExtensionExtensions, ExtensionFast} |->
     IF x = ExtensionDHT THEN [byte |-> 8, mask |-> 1]
     ELSE IF x = ExtensionExtensions THEN [byte |-> 6, mask |-> 32]
     ELSE [byte |-> 8, mask |-> 128]]

Masks == {1, 2, 4, 8, 16, 32, 64, 128}

SetCalled(x) == \E k \in 1..Len(args.calls) : args.calls[k] = x

\* C22: after any sequence of SetExtension calls, HasExtension(x) holds for a
\* named extension x exactly when its bit was set at the start or x is one of
\* the calls; a reserved bit is set exactly when it was set at the start or it
\* is the designated bit of one of the calls, and the other fields are as
\* they were.
ExtensionBitsAsStated ==
  pc = "extensions" =>
    /\ \A x \in DOMAIN Designated :
         HasExtension(handshake, x)
           <=> \/ TestBit(args.h0.Reserved[Designated[x].byte],
                          Designated[x].mask)
               \/ SetCalled(x)
    /\ \A i \in 1..8 : \A m \in Masks :
         TestBit(handshake.Reserved[i], m)
           <=> \/ TestBit(args.h0.Reserved[i], m)
               \/ \E x \in DOMAIN Designated :
                    /\ SetCalled(x)
                    /\ Designated[x] = [byte |-> i, mask |-> m]
    /\ handshake.Pstr = args.h0.Pstr
    /\ handshake.InfoHash = args.h0.InfoHash
    /\ handshake.PeerID = args.h0.PeerID
    /\ ~HasExtension(handshake, 3)

\* The calls of the test and one with an identifier that names nothing.
ExtensionBitsAsStated_witness ==
  /\ pc = "extensions"
  /\ args.calls = <<ExtensionDHT, 3, ExtensionExtensions>>
  /\ handshake.Reserved = <<0, 0, 0, 0, 0, 32, 0, 1>>

(***************************************************************************)
(* package peer: the messages                                              *)
(*                                                                         *)
(* A uint32 is its two halves of 16 bits, hi and lo.  A []byte is its      *)
(* bytes and whether it is nil.                                            *)
(* A *Message is an address of the heap, a function from the addresses in  *)
(* use to the Message each holds; the package variable KeepAliveMessage    *)
(* has the address 0, the Messages made later are numbered from 1.         *)
(***************************************************************************)
Half == 65536

U32(hi, lo) == [hi |-> hi, lo |-> lo]

\* uint32(n) for an int n from 0 to 2^31 - 1
U32Of(n) == U32(n \div Half, n % Half)

\* a + b in uint32
U32Add(a, b) ==
  U32((a.hi + b.hi + ((a.lo + b.lo) \div Half)) % Half, (a.lo + b.lo) % Half)

\* binary.BigEndian.PutUint32
PutUint32(v) ==
  <<v.hi \div 256, v.hi % 256, v.lo \div 256, v.lo % 256>>

\* binary.BigEndian.Uint32
Uint32(b) == U32(b[1] * 256 + b[2], b[3] * 256 + b[4])

MsgHave == 4

MsgPiece == 7

\* A []byte that is nil, and one that holds the bytes b.
NilSlice == [nil |-> TRUE, bytes |-> <<>>]

Bytes(b) == [nil |-> FALSE, bytes |-> b]

\* len(p) of a slice
SliceLen(p) == Len(p.bytes)

\* The bytes of a slice
SliceBytes(p) == p.bytes

Message(length, type, payload) ==
  [Length |-> length, Type |-> type, Payload |-> payload]

\* var KeepAliveMessage = Message{Length: 0, Type: 0, Payload: nil}
KeepAliveMessage == Message(U32(0, 0), 0, NilSlice)

\* The address of the package variable KeepAliveMessage.
AddrKeepAlive == 0

\* A pointer to the Message at the address a.
Ptr(a) == [addr |-> a]

\* The heap when the package is loaded.
InitHeap == [a \in {AddrKeepAlive} |-> KeepAliveMessage]

\* &Message{...}: the heap with one more address in use, and the address.
New(h, m) ==
  LET a == Cardinality(DOMAIN h)
  IN [heap |-> [x \in DOMAIN h \cup {a} |-> IF x = a THEN m ELSE h[x]],
      addr |-> a]

\* (m *Message) Serialize()
MessageSerialize(m) ==
  IF m.Length = U32(0, 0)
  THEN Zeros(4)
  ELSE PutUint32(m.Length) \o <<m.Type>> \o SliceBytes(m.Payload)

\* io.ReadFull for a buffer of a uint32 of bytes; the streams are shorter
\* than 65536 bytes.
ReadFull32(r, length) ==
  IF length.hi = 0
  THEN ReadFull(r, length.lo)
  ELSE [err |-> IF r.bytes # <<>> /\ r.end = "EOF"
                THEN <<"unexpected EOF">> ELSE <<r.end>>,
        buf |-> r.bytes,
        r |-> Reader(<<>>, r.end)]

\* return nil, err
MessageError(e, r, h) == [err |-> e, msg |-> Nil, r |-> r, heap |-> h]

\* ReadMessage with the type left in the payload.
ReadMessage_keepsType(r, h) ==
  LET l == ReadFull(r, 4)
  IN IF l.err # NoErr THEN MessageError(l.err, l.r, h)
     ELSE LET length == Uint32(l.buf)
          IN IF length = U32(0, 0)
             THEN [err |-> NoErr, msg |-> Ptr(AddrKeepAlive), r |-> l.r,
                   heap |-> h]
             ELSE LET b == ReadFull32(l.r, length)
                  IN IF b.err # NoErr THEN MessageError(b.err, b.r, h)
                     ELSE LET n == New(h, Message(length, b.buf[1], Bytes(b.buf)))
                          IN [err |-> NoErr, msg |-> Ptr(n.addr), r |-> b.r,
                              heap |-> n.heap]

\* ReadMessage(r) with the heap h: the error, the *Message, the reader as the
\* call leaves it and the heap.
ReadMessage(r, h) ==
  LET l == ReadFull(r, 4)
  IN IF l.err # NoErr THEN MessageError(l.err, l.r, h)
     ELSE LET length == Uint32(l.buf)
          IN IF length = U32(0, 0)
             THEN [err |-> NoErr, msg |-> Ptr(AddrKeepAlive), r |-> l.r,
                   heap |-> h]
             ELSE LET b == ReadFull32(l.r, length)
                  IN IF b.err # NoErr THEN MessageError(b.err, b.r, h)
                     ELSE LET payload == IF length # U32(0, 1)
                                         THEN Bytes(Tail(b.buf)) ELSE NilSlice
                              n == New(h, Message(length, b.buf[1], payload))
                          IN [err |-> NoErr, msg |-> Ptr(n.addr), r |-> b.r,
                              heap |-> n.heap]

\* FormatMessage: the Message that the pointer returned points to.
FormatMessage(messageType, payload) ==
  Message(IF ~payload.nil
          THEN U32Add(U32(0, 1), U32Of(SliceLen(payload))) ELSE U32(0, 1),
          messageType, payload)

PieceError(e) == [begin |-> U32(0, 0), data |-> NilSlice, err |-> e]

\* ParsePiece with the index not compared.
ParsePiece_anyIndex(index, msg) ==
  IF msg.Type # MsgPiece THEN PieceError(<<"not a PIECE message">>)
  ELSE IF SliceLen(msg.Payload) < 8
  THEN PieceError(<<"invalid PIECE message payload length">>)
  ELSE [begin |-> Uint32(SubSeq(msg.Payload.bytes, 5, 8)),
        data |-> Bytes(SubSeq(msg.Payload.bytes, 9, SliceLen(msg.Payload))),
        err |-> NoErr]

\* ParsePiece(pieceIndex, msg) for the Message msg points to
ParsePiece(index, msg) ==
  IF msg.Type # MsgPiece THEN PieceError(<<"not a PIECE message">>)
  ELSE IF SliceLen(msg.Payload) < 8
  THEN PieceError(<<"invalid PIECE message payload length">>)
  ELSE IF Uint32(SubSeq(msg.Payload.bytes, 1, 4)) # index
  THEN PieceError(<<"unexpected piece index", index,
                    Uint32(SubSeq(msg.Payload.bytes, 1, 4))>>)
  ELSE [begin |-> Uint32(SubSeq(msg.Payload.bytes, 5, 8)),
        data |-> Bytes(SubSeq(msg.Payload.bytes, 9, SliceLen(msg.Payload))),
        err |-> NoErr]

(***************************************************************************)
(* The specification of Serialize and ReadMessage on a stream              *)
(***************************************************************************)
\* The most messages written to one stream.
MaxMsgs == 2

\* The messages written: made by FormatMessage, the keep-alive, and Message
\* literals whose Length is not that of their payload.
Sources ==
  {[kind |-> "format", m |-> FormatMessage(t, p)] :
     t \in {0, MsgHave}, p \in {NilSlice, Bytes(<<>>), Bytes(<<0, 0, 0, 42>>)}}
  \cup {[kind |-> "keepalive", m |-> KeepAliveMessage]}
  \cup {[kind |-> "literal", m |-> m] :
          m \in {Message(U32(0, 0), MsgHave, Bytes(<<1>>)),
                 Message(U32(0, 7), MsgPiece, NilSlice),
                 Message(U32(0, 2), 0, Bytes(<<1, 2, 3>>)),
                 Message(U32(1, 0), 0, Bytes(<<1>>))}}

\* The frames one after the other.
RECURSIVE Joined(_)
Joined(fs) == IF fs = <<>> THEN <<>> ELSE Head(fs) \o Joined(Tail(fs))

\* Where a stream of n bytes is cut.
Cuts(n) == {c \in {0, 2, 4, 5, n - 1, n} : c >= 0 /\ c <= n}

InitMessages ==
  /\ pc = "serialize"
  /\ msgs \in UNION {[1..n -> Sources] : n \in 0..MaxMsgs}
  /\ frames = <<>>
  /\ stream = Nil
  /\ received = <<>>
  /\ heap = InitHeap
  /\ piece = Nil
  /\ compact = Nil
  /\ peers = Nil
  /\ response = Nil
  /\ requested = Nil
  /\ task = Nil
  /\ channel = Nil
  /\ timer = Nil
  /\ opened = Nil
  /\ handshake = Nil
  /\ serialized = None
  /\ inHandshake = None
  /\ args = Nil
  /\ conn = Nil
  /\ remote = Nil
  /\ ret = None
  /\ stack = Nil
  /\ retval = None
  /\ parts = Nil
  /\ data = <<>>
  /\ result = None
  /\ tail = <<>>
  /\ result2 = None
  /\ dict = Nil
  /\ order = Nil
  /\ encoded = None
  /\ decoded = None
  /\ torrent = None
  /\ infoHash = None
  /\ again = None
  /\ pieceIndex = Nil
  /\ pieceHash = None
  /\ pieceLength = None

\* The bytes of the next message are written.
MessageSerializeCall ==
  /\ pc = "serialize"
  /\ Len(frames) < Len(msgs)
  /\ frames' = Append(frames, MessageSerialize(msgs[Len(frames) + 1].m))
  /\ UNCHANGED <<pc, msgs, stream, received, piece, heap, peerVars, fileVars,
                 trackerVars, mainVars, stepVars>>

\* The reader gets the bytes written, or the first of them, and then ends;
\* stream keeps the bytes it was opened with.
OpenStream ==
  /\ pc = "serialize"
  /\ Len(frames) = Len(msgs)
  /\ \E c \in Cuts(Len(Joined(frames))) :
       \E end \in IF c = Len(Joined(frames))
                  THEN {"EOF"} ELSE {"EOF", "i/o timeout"} :
         stream' = [opened |-> SubSeq(Joined(frames), 1, c),
                    r |-> Reader(SubSeq(Joined(frames), 1, c), end)]
  /\ pc' = "read"
  /\ UNCHANGED <<msgs, frames, received, piece, heap, peerVars, fileVars,
                 trackerVars, mainVars, stepVars>>

\* msg, err := ReadMessage(reader), until a call fails
ReadMessageCall ==
  /\ pc = "read"
  /\ IF received = <<>> THEN TRUE ELSE received[Len(received)].err = NoErr
  /\ LET m == ReadMessage(stream.r, heap)
     IN /\ received' = Append(received,
                              [err |-> m.err, msg |-> m.msg, r |-> m.r])
        /\ stream' = [stream EXCEPT !.r = m.r]
        /\ heap' = m.heap
  /\ UNCHANGED <<pc, msgs, frames, piece, peerVars, fileVars, trackerVars,
                 mainVars, stepVars>>

NextMessages == MessageSerializeCall \/ OpenStream \/ ReadMessageCall

SpecMessages == InitMessages /\ [][NextMessages]_vars

(***************************************************************************)
(* Properties of the messages                                              *)
(***************************************************************************)
\* C23: for every Message m, Serialize returns four zero bytes if m.Length
\* is 0, and otherwise 5 + len(payload) bytes: the big-endian value of
\* 1 + len(payload), the type and the payload.
SerializeFramesPayload ==
  \A k \in 1..Len(frames) :
    LET m == msgs[k].m
        n == SliceLen(m.Payload)
    IN IF m.Length = U32(0, 0)
       THEN frames[k] = <<0, 0, 0, 0>>
       ELSE /\ Len(frames[k]) = 5 + n
            /\ SubSeq(frames[k], 1, 4) = PutUint32(U32Of(1 + n))
            /\ frames[k][5] = m.Type
            /\ SubSeq(frames[k], 6, 5 + n) = SliceBytes(m.Payload)

\* Every message written was made by FormatMessage or is the keep-alive.
AllFormatted == \A k \in 1..Len(msgs) : msgs[k].kind # "literal"

\* C24: on a stream of the frames of FormatMessage messages and keep-alives,
\* the k-th ReadMessage returns the k-th message: the same type and payload,
\* Length 1 + len(payload), or 0 for a keep-alive; it leaves the stream just
\* after the frame, 4 + Length bytes on; a stream that ends inside a frame
\* gives an I/O error and no message.
ReadMessageReturnsWritten ==
  (pc = "read" /\ AllFormatted) =>
    \A k \in 1..Len(received) :
      LET got == received[k]
          before == Len(Joined(SubSeq(frames, 1, k - 1)))
      IN IF k <= Len(msgs) /\ Len(stream.opened) >= before + Len(frames[k])
         THEN LET m == msgs[k].m
                  length == IF msgs[k].kind = "keepalive" THEN 0
                            ELSE 1 + SliceLen(m.Payload)
              IN /\ got.err = NoErr
                 /\ got.msg # Nil
                 /\ heap[got.msg.addr].Type = m.Type
                 /\ SliceBytes(heap[got.msg.addr].Payload)
                      = SliceBytes(m.Payload)
                 /\ heap[got.msg.addr].Length = U32Of(length)
                 /\ got.r.bytes = From(stream.opened, before + 4 + length + 1)
         ELSE /\ got.err \in IOErrors
              /\ got.msg = Nil

\* Two messages read back in order, the second with a payload.
ReadMessageReturnsWritten_witness ==
  /\ pc = "read"
  /\ Len(msgs) = 2
  /\ msgs[1].kind = "keepalive"
  /\ msgs[2] = [kind |-> "format",
               m |-> FormatMessage(MsgHave, Bytes(<<0, 0, 0, 42>>))]
  /\ Len(received) = 3
  /\ received[2].err = NoErr
  /\ heap[received[2].msg.addr].Payload.bytes = <<0, 0, 0, 42>>
  /\ received[3].err = <<"EOF">>

(***************************************************************************)
(* The specification of ParsePiece                                         *)
(***************************************************************************)
\* The piece indices expected: 0, 1, 256, 2^24 and 2^32 - 1.
PieceIndices ==
  {U32(0, 0), U32(0, 1), U32(0, 256), U32(256, 0), U32(Half - 1, Half - 1)}

\* Payloads: none, too short by one byte, and indices, offsets and blocks.
PiecePayloads ==
  {NilSlice, Bytes(<<>>), Bytes(<<0, 0, 0, 1, 0, 0, 0>>),
   Bytes(<<0, 0, 0, 1, 0, 0, 1, 0>>), Bytes(<<0, 0, 0, 0, 0, 0, 0, 0>>),
   Bytes(<<0, 0, 0, 1, 0, 0, 0, 0, 5, 6>>),
   Bytes(<<1, 0, 0, 0, 0, 0, 0, 2, 7>>), Bytes(<<0, 0, 1, 0, 0, 1, 0, 0>>),
   Bytes(<<255, 255, 255, 255, 128, 0, 0, 0, 1>>)}

InitPiece ==
  /\ pc = "ParsePiece"
  /\ piece \in [index : PieceIndices,
                msg : {FormatMessage(t, p) :
                         t \in {0, MsgHave, MsgPiece}, p \in PiecePayloads},
                ret : {None}]
  /\ msgs = Nil
  /\ frames = Nil
  /\ stream = Nil
  /\ received = Nil
  /\ heap = InitHeap
  /\ compact = Nil
  /\ peers = Nil
  /\ response = Nil
  /\ requested = Nil
  /\ task = Nil
  /\ channel = Nil
  /\ timer = Nil
  /\ opened = Nil
  /\ handshake = Nil
  /\ serialized = None
  /\ inHandshake = None
  /\ args = Nil
  /\ conn = Nil
  /\ remote = Nil
  /\ ret = None
  /\ stack = Nil
  /\ retval = None
  /\ parts = Nil
  /\ data = <<>>
  /\ result = None
  /\ tail = <<>>
  /\ result2 = None
  /\ dict = Nil
  /\ order = Nil
  /\ encoded = None
  /\ decoded = None
  /\ torrent = None
  /\ infoHash = None
  /\ again = None
  /\ pieceIndex = Nil
  /\ pieceHash = None
  /\ pieceLength = None

\* begin, data, err := ParsePiece(index, msg)
ParsePieceCall ==
  /\ pc = "ParsePiece"
  /\ piece' = [piece EXCEPT !.ret = ParsePiece(piece.index, piece.msg)]
  /\ pc' = "parsed"
  /\ UNCHANGED <<msgs, frames, stream, received, heap, peerVars, fileVars,
                 trackerVars, mainVars, stepVars>>

NextPiece == ParsePieceCall

SpecPiece == InitPiece /\ [][NextPiece]_vars

\* C25: ParsePiece(expected, msg) succeeds exactly when msg has the type
\* Piece, a payload of at least 8 bytes, and the big-endian index of the
\* payload bytes 0..3 equal to expected; it then returns the big-endian
\* offset of bytes 4..7 and the block payload[8:]; with another index in the
\* payload it fails with the error of an unexpected piece index.
ParsePieceAsStated ==
  pc = "parsed" =>
    LET p == piece.msg.Payload.bytes
        wellFormed == piece.msg.Type = MsgPiece /\ Len(p) >= 8
    IN /\ piece.ret.err = NoErr
            <=> (wellFormed /\ SubSeq(p, 1, 4) = PutUint32(piece.index))
       /\ piece.ret.err = NoErr =>
            /\ PutUint32(piece.ret.begin) = SubSeq(p, 5, 8)
            /\ piece.ret.data.bytes = From(p, 9)
       /\ (wellFormed /\ SubSeq(p, 1, 4) # PutUint32(piece.index)) =>
            /\ Len(piece.ret.err) = 3
            /\ piece.ret.err[1] = "unexpected piece index"

\* A block of two bytes at offset 0 of piece 1.
ParsePieceAsStated_witness ==
  /\ pc = "parsed"
  /\ piece.index = U32(0, 1)
  /\ piece.ret.err = NoErr
  /\ piece.ret.begin = U32(0, 0)
  /\ piece.ret.data = Bytes(<<5, 6>>)

(***************************************************************************)
(* package tracker                                                         *)
(*                                                                         *)
(* The bytes of a compact peer list are numbers, 0 to 255.  A []Peer is    *)
(* its peers and whether it is nil.                                        *)
(***************************************************************************)
\* net.IPv4(a, b, c, d): the 16 bytes of the address mapped into IPv6.
IPv4(a, b, c, d) == Zeros(10) \o <<MaxByte, MaxByte, a, b, c, d>>

\* binary.BigEndian.Uint16
Uint16(b) == b[1] * 256 + b[2]

NilPeers == [nil |-> TRUE, list |-> <<>>]

\* The loop of parsePeers from the byte at i (counted from 0) on.
RECURSIVE parsePeersLoop(_, _, _)
parsePeersLoop(peerData, i, acc) ==
  IF i < Len(peerData)
  THEN parsePeersLoop(peerData, i + 6,
         Append(acc,
                [IP |-> IPv4(peerData[i + 1], peerData[i + 2],
                             peerData[i + 3], peerData[i + 4]),
                 Port |-> Uint16(SubSeq(peerData, i + 5, i + 6))]))
  ELSE acc

\* parsePeers with the port read with the low byte first.
parsePeers_littleEndian(peerData) ==
  IF Len(peerData) % 6 # 0
  THEN [peers |-> NilPeers,
        err |-> <<"invalid peer list length", Len(peerData)>>]
  ELSE [peers |-> [nil |-> FALSE,
                   list |-> [k \in 1..(Len(peerData) \div 6) |->
                               [IP |-> parsePeersLoop(peerData, 0, <<>>)[k].IP,
                                Port |-> peerData[6 * k]* 256
                                         + peerData[6 * k - 1]]]],
        err |-> NoErr]

\* parsePeers(compactPeers) for the bytes of the string
parsePeers(peerData) ==
  IF Len(peerData) % 6 # 0
  THEN [peers |-> NilPeers,
        err |-> <<"invalid peer list length", Len(peerData)>>]
  ELSE [peers |-> [nil |-> FALSE,
                   list |-> parsePeersLoop(peerData, 0, <<>>)],
        err |-> NoErr]

(***************************************************************************)
(* The specification of parsePeers                                         *)
(***************************************************************************)
\* The most whole peers of a compact peer list.
MaxPeers == 2

\* The peers of the test of the tracker, and the ends of the ranges.
PeerGroups ==
  {<<127, 0, 0, 1, 26, 225>>, <<192, 168, 0, 1, 26, 225>>,
   <<0, 0, 0, 0, 0, 0>>, <<255, 255, 255, 255, 255, 255>>,
   <<1, 2, 3, 4, 0, 80>>}

\* Compact peer lists: whole peers and up to 5 bytes more.
CompactLists ==
  {Joined(gs) \o SubSeq(<<10, 0, 0, 7, 1, 0>>, 1, j) :
     gs \in UNION {[1..n -> PeerGroups] : n \in 0..MaxPeers}, j \in 0..5}

InitPeers ==
  /\ pc = "parsePeers"
  /\ compact \in CompactLists
  /\ peers = None
  /\ response = Nil
  /\ requested = Nil
  /\ msgs = Nil
  /\ frames = Nil
  /\ stream = Nil
  /\ received = Nil
  /\ piece = Nil
  /\ heap = Nil
  /\ task = Nil
  /\ channel = Nil
  /\ timer = Nil
  /\ opened = Nil
  /\ handshake = Nil
  /\ serialized = None
  /\ inHandshake = None
  /\ args = Nil
  /\ conn = Nil
  /\ remote = Nil
  /\ ret = None
  /\ stack = Nil
  /\ retval = None
  /\ parts = Nil
  /\ data = <<>>
  /\ result = None
  /\ tail = <<>>
  /\ result2 = None
  /\ dict = Nil
  /\ order = Nil
  /\ encoded = None
  /\ decoded = None
  /\ torrent = None
  /\ infoHash = None
  /\ again = None
  /\ pieceIndex = Nil
  /\ pieceHash = None
  /\ pieceLength = None

\* peers, err := parsePeers(compactPeers)
parsePeersCall ==
  /\ pc = "parsePeers"
  /\ peers' = parsePeers(compact)
  /\ pc' = "peers"
  /\ UNCHANGED <<compact, response, requested, msgVars, mainVars, peerVars,
                 fileVars, stepVars>>

NextPeers == parsePeersCall

SpecPeers == InitPeers /\ [][NextPeers]_vars

\* C26: for a compact peer string whose length is not a multiple of 6 the
\* decode fails with the error of an invalid peer list length and returns no
\* peers; otherwise it returns len/6 peers, the k-th with the IPv4 address of
\* the bytes 6k..6k+3 and the big-endian port of the bytes 6k+4..6k+5.
ParsePeersAsStated ==
  pc = "peers" =>
    IF Len(compact) % 6 # 0
    THEN /\ peers.err = <<"invalid peer list length", Len(compact)>>
         /\ peers.peers = NilPeers
    ELSE /\ peers.err = NoErr
         /\ Len(peers.peers.list) * 6 = Len(compact)
         /\ \A k \in 0..(Len(peers.peers.list) - 1) :
              LET p == peers.peers.list[k + 1]
              IN /\ SubSeq(p.IP, 13, 16) = SubSeq(compact, 6 * k + 1, 6 * k + 4)
                 /\ SubSeq(p.IP, 1, 12)
                      = <<0, 0, 0, 0, 0, 0, 0, 0, 0, 0, 255, 255>>
                 /\ Len(p.IP) = 16
                 /\ p.Port = 256 * compact[6 * k + 5] + compact[6 * k + 6]

\* The two peers of the test: 127.0.0.1:6881 and 192.168.0.1:6881.
ParsePeersAsStated_witness ==
  /\ pc = "peers"
  /\ compact = <<127, 0, 0, 1, 26, 225, 192, 168, 0, 1, 26, 225>>
  /\ peers.err = NoErr
  /\ Len(peers.peers.list) = 2
  /\ peers.peers.list[2].Port = 6881

(***************************************************************************)
(* RequestPeers                                                            *)
(***************************************************************************)
kInterval == <<"i", "n", "t", "e", "r", "v", "a", "l">>

kPeers == <<"p", "e", "e", "r", "s">>

kMinInterval == <<"m", "i", "n", " ", "i", "n", "t", "e", "r", "v", "a", "l">>

kComplete == <<"c", "o", "m", "p", "l", "e", "t", "e">>

kIncomplete == <<"i", "n", "c", "o", "m", "p", "l", "e", "t", "e">>

\* []byte(s) of a string of the codec
BytesOf(s) == [i \in 1..Len(s) |-> Ord(s[i])]

\* return nil, err of parseTrackerResponse
ResponseError(e) == [st |-> "err", resp |-> Nil, err |-> e]

\* parseTrackerResponse(body)
parseTrackerResponse(body) ==
  LET d == Decode(body)
  IN IF d.st = "panic" THEN [st |-> "panic", resp |-> Nil, err |-> d.err]
     ELSE IF d.err # NoErr THEN ResponseError(d.err)
     ELSE IF d.val.tag # "map"
     THEN ResponseError(<<"tracker response is not a dictionary">>)
     ELSE IF ~Has(d.val.map, kInterval, "int64")
     THEN ResponseError(<<"missing or invalid interval">>)
     ELSE IF ~Has(d.val.map, kPeers, "string")
     THEN ResponseError(<<"missing or invalid peers">>)
     ELSE [st |-> "ok", err |-> NoErr,
           resp |-> [Interval |-> d.val.map[kInterval].num,
                     Peers |-> d.val.map[kPeers].str,
                     MinInterval |-> Int64Or(d.val.map, kMinInterval),
                     Complete |-> Int64Or(d.val.map, kComplete),
                     Incomplete |-> Int64Or(d.val.map, kIncomplete)]]

\* return peers, err of RequestPeers
Requested(ps, e) == [peers |-> ps, err |-> e]

\* The torrent of the tests of the tracker; its announce is the URL of the
\* tracker.
DummyTorrent ==
  [ZeroTorrent EXCEPT !.Announce = <<"h", "t", "t", "p", ":">>,
                      !.Info.Name = <<"d", "u", "m", "m", "y">>,
                      !.Info.PieceLength = FromInt(262144)]

\* What the tracker answers: no answer at all, or a status and a body.
TrackerBodies ==
  {<<"d">> \o Entry(kInterval, <<"i", "1", "8", "0", "0", "e">>)
          \o Entry(kPeers, Bstring(p)) \o <<"e">> :
     p \in {<<>>, <<"a", "b", "c", "d", "e", "f">>, <<"a", "b", "c", "d", "e">>,
            <<"a", "b", "c", "d", "e", "f", "0", "1", "2", "3", "4", "5">>}}
  \cup {<<"d">> \o Entry(kPeers, Bstring(<<"a", "b", "c", "d", "e", "f">>))
             \o <<"e">>,
        <<"d">> \o Entry(kInterval, <<"i", "1", "8", "0", "0", "e">>) \o <<"e">>,
        <<"d">> \o Entry(kInterval, <<"i", "1", "8", "0", "0", "e">>)
             \o Entry(kPeers, <<"l", "e">>) \o <<"e">>,
        <<"i", "5", "e">>,
        <<"b", "a", "d", " ", "r", "e", "q", "u", "e", "s", "t">>,
        <<>>}

TrackerAnswers ==
  [err : {NoErr}, status : {200, 400, 403, 404, 500, 503},
   body : TrackerBodies]
  \cup {[err |-> <<"connection refused">>, status |-> 0, body |-> <<>>]}

InitTracker ==
  /\ pc = "RequestPeers"
  /\ torrent = Parsed(DummyTorrent, "none")
  /\ response \in TrackerAnswers
  /\ compact = Nil
  /\ peers = None
  /\ requested = None
  /\ infoHash = None
  /\ order = Nil
  /\ msgs = Nil
  /\ frames = Nil
  /\ stream = Nil
  /\ received = Nil
  /\ piece = Nil
  /\ heap = Nil
  /\ task = Nil
  /\ channel = Nil
  /\ timer = Nil
  /\ opened = Nil
  /\ handshake = Nil
  /\ serialized = None
  /\ inHandshake = None
  /\ args = Nil
  /\ conn = Nil
  /\ remote = Nil
  /\ ret = None
  /\ stack = Nil
  /\ retval = None
  /\ parts = Nil
  /\ data = <<>>
  /\ result = None
  /\ tail = <<>>
  /\ result2 = None
  /\ dict = Nil
  /\ encoded = None
  /\ decoded = None
  /\ again = None
  /\ pieceIndex = Nil
  /\ pieceHash = None
  /\ pieceLength = None

\* The variables of the codec and the torrent that RequestPeers leaves alone.
codecVars ==
  <<parts, data, result, tail, result2, dict, encoded, decoded, torrent,
    again, pieceIndex, pieceHash, pieceLength>>

\* From the info hash to http.Get: the request is sent and answered.
HttpGet ==
  /\ pc = "RequestPeers"
  /\ \E enum \in Orders :
       /\ order' = enum
       /\ infoHash' = InfoHash(torrent.t, enum)
  /\ IF infoHash'.err # NoErr
     THEN /\ requested' = Requested(NilPeers,
                                    Wrap("failed to calculate info hash",
                                         infoHash'.err))
          /\ pc' = "requested"
     ELSE IF response.err # NoErr
     THEN /\ requested' = Requested(NilPeers,
                                    Wrap("tracker request failed",
                                         response.err))
          /\ pc' = "requested"
     ELSE /\ requested' = requested
          /\ pc' = "answered"
  /\ UNCHANGED <<compact, peers, response, msgVars, mainVars, peerVars,
                 codecVars, stepVars>>

\* io.ReadAll and parseTrackerResponse(body); compact is trackerResp.Peers.
ParseTrackerResponse ==
  /\ pc = "answered"
  /\ LET r == parseTrackerResponse(response.body)
     IN IF r.err # NoErr
        THEN /\ requested' = Requested(NilPeers,
                                       Wrap("failed to parse tracker response",
                                            r.err))
             /\ compact' = compact
             /\ pc' = "requested"
        ELSE /\ compact' = BytesOf(r.resp.Peers)
             /\ requested' = requested
             /\ pc' = "decoded"
  /\ UNCHANGED <<peers, response, msgVars, mainVars, peerVars, codecVars,
                 infoHash, order, stepVars>>

\* parsePeers(trackerResp.Peers) and the return
ParseCompactPeers ==
  /\ pc = "decoded"
  /\ peers' = parsePeers(compact)
  /\ requested' = IF peers'.err # NoErr
                  THEN Requested(NilPeers,
                                 Wrap("failed to parse peer list", peers'.err))
                  ELSE Requested(peers'.peers, NoErr)
  /\ pc' = "requested"
  /\ UNCHANGED <<compact, response, msgVars, mainVars, peerVars, codecVars,
                 infoHash, order, stepVars>>

NextTracker == HttpGet \/ ParseTrackerResponse \/ ParseCompactPeers

SpecTracker == InitTracker /\ [][NextTracker]_vars

\* C27: RequestPeers returns an error and no peers whenever the tracker
\* answers with a status that is not 2xx, whatever the body.
RequestPeersChecksStatus ==
  (pc = "requested" /\ response.err = NoErr
     /\ response.status \notin 200..299) =>
    /\ requested.err # NoErr
    /\ requested.peers = NilPeers

(***************************************************************************)
(* main: the loop that tries the peers                                     *)
(*                                                                         *)
(* pc is the position of main.  For each attempt, task is the position of  *)
(* its goroutine and whether PerformHandshake returned a nil error,        *)
(* channel the state of its handshakeChan, timer the state of its          *)
(* time.After, and opened the state of the connection it dialed.           *)
(***************************************************************************)
\* The most peers tried; main tries 5 at most.
MaxPeersToTry == 3

Attempts == 1..MaxPeersToTry

\* The attempts made so far, and the one main is waiting for.
Started == {i \in Attempts : channel[i] # "none"}

Current == Cardinality(Started)

\* handshakeSuccessful
HandshakeSuccessful ==
  \E i \in Attempts : channel[i] = "received" /\ task[i].ok

InitMain ==
  /\ pc = "loop"
  /\ args \in [maxPeersToTry : 0..MaxPeersToTry]
  /\ task = [i \in Attempts |-> [at |-> "none", ok |-> FALSE]]
  /\ channel = [i \in Attempts |-> "none"]
  /\ timer = [i \in Attempts |-> "none"]
  /\ opened = [i \in Attempts |-> "none"]
  /\ handshake = Nil
  /\ serialized = None
  /\ inHandshake = None
  /\ conn = Nil
  /\ remote = Nil
  /\ ret = None
  /\ stack = Nil
  /\ retval = None
  /\ msgs = Nil
  /\ frames = Nil
  /\ stream = Nil
  /\ received = Nil
  /\ piece = Nil
  /\ heap = Nil
  /\ compact = Nil
  /\ peers = Nil
  /\ response = Nil
  /\ requested = Nil
  /\ parts = Nil
  /\ data = <<>>
  /\ result = None
  /\ tail = <<>>
  /\ result2 = None
  /\ dict = Nil
  /\ order = Nil
  /\ encoded = None
  /\ decoded = None
  /\ torrent = None
  /\ infoHash = None
  /\ again = None
  /\ pieceIndex = Nil
  /\ pieceHash = None
  /\ pieceLength = None

\* What an action of the loop leaves alone.
restVars ==
  <<handshake, serialized, inHandshake, args, conn, remote, ret, msgVars,
    trackerVars, fileVars>>

\* An iteration begins: the channel is made, the goroutine started, and main
\* enters the select, where time.After starts the timer.
StartAttempt ==
  /\ pc = "loop"
  /\ Current < args.maxPeersToTry
  /\ ~HandshakeSuccessful
  /\ channel' = [channel EXCEPT ![Current + 1] = "made"]
  /\ task' = [task EXCEPT ![Current + 1].at = "PerformHandshake"]
  /\ timer' = [timer EXCEPT ![Current + 1] = "running"]
  /\ pc' = "select"
  /\ UNCHANGED <<opened, restVars, stepVars>>

\* The loop ends.
EndLoop ==
  /\ pc = "loop"
  /\ ~(Current < args.maxPeersToTry /\ ~HandshakeSuccessful)
  /\ pc' = "done"
  /\ UNCHANGED <<task, channel, timer, opened, restVars, stepVars>>

\* The goroutine of attempt i: PerformHandshake returns with no connection,
\* with a connection it closed, or with a handshake and an open connection;
\* then the goroutine is at the send on the channel.
Perform(i) ==
  /\ task[i].at = "PerformHandshake"
  /\ \E outcome \in {"refused", "failed", "success"} :
       /\ opened' = [opened EXCEPT ![i] =
                       IF outcome = "refused" THEN "none"
                       ELSE IF outcome = "failed" THEN "closed" ELSE "open"]
       /\ task' = [task EXCEPT ![i] =
                     [at |-> "send", ok |-> outcome = "success"]]
  /\ UNCHANGED <<pc, channel, timer, restVars, stepVars>>

\* case result := <-handshakeChan: the send and the receive meet.
ReceiveResult(i) ==
  /\ pc = "select"
  /\ Current = i
  /\ task[i].at = "send"
  /\ channel' = [channel EXCEPT ![i] = "received"]
  /\ task' = [task EXCEPT ![i].at = "returning"]
  /\ timer' = [timer EXCEPT ![i] = "dropped"]
  /\ pc' = "loop"
  /\ UNCHANGED <<opened, restVars, stepVars>>

\* case <-time.After(5 * time.Second)
Timeout(i) ==
  /\ pc = "select"
  /\ Current = i
  /\ timer[i] = "running"
  /\ timer' = [timer EXCEPT ![i] = "fired"]
  /\ pc' = "loop"
  /\ UNCHANGED <<task, channel, opened, restVars, stepVars>>

\* The goroutine returns: the deferred conn.Close() runs if it was deferred.
ReturnFromTask(i) ==
  /\ task[i].at = "returning"
  /\ opened' = [opened EXCEPT ![i] =
                  IF task[i].ok /\ opened[i] = "open" THEN "closed" ELSE @]
  /\ task' = [task EXCEPT ![i].at = "terminated"]
  /\ UNCHANGED <<pc, channel, timer, restVars, stepVars>>

NextMain ==
  \/ StartAttempt
  \/ EndLoop
  \/ \E i \in Attempts :
       Perform(i) \/ ReceiveResult(i) \/ Timeout(i) \/ ReturnFromTask(i)

SpecMain == InitMain /\ [][NextMain]_vars

\* main and every goroutine keep running while they can; a timer that is
\* waited for fires.
SpecMainFair ==
  /\ SpecMain
  /\ WF_vars(StartAttempt)
  /\ WF_vars(EndLoop)
  /\ \A i \in Attempts :
       /\ WF_vars(Perform(i))
       /\ WF_vars(ReceiveResult(i))
       /\ WF_vars(Timeout(i))
       /\ WF_vars(ReturnFromTask(i))

\* C28: every task of a handshake attempt eventually terminates and the
\* connection it opened is eventually closed, in every interleaving of the
\* attempt with the timeout.
AttemptsTerminate ==
  \A i \in Attempts :
    (task[i].at # "none") ~> (task[i].at = "terminated" /\ opened[i] # "open")

(***************************************************************************)
(* The specification of ReadMessage calls on independent streams           *)
(*                                                                         *)
(* stream[k] is the reader of call k, received[k] what the call returned,  *)
(* msgs[k] the Message its pointer pointed to when it returned, and        *)
(* args.via the call through whose pointer the caller has written.         *)
(***************************************************************************)
\* The streams read, each by one call.
MaxReaders == 2

Readers == 1..MaxReaders

\* A keep-alive, a choke, a have, and a frame cut short.
ReaderStreams ==
  {<<0, 0, 0, 0>>, <<0, 0, 0, 1, 0>>, <<0, 0, 0, 5, 4, 0, 0, 0, 42>>,
   <<0, 0, 0, 5, 4>>}

\* The field the caller writes through the pointer it holds.
Writes == {"Type", "Length", "Payload"}

InitShared ==
  /\ pc = "calls"
  /\ stream \in [Readers -> {Reader(b, "EOF") : b \in ReaderStreams}]
  /\ received = [k \in Readers |-> None]
  /\ msgs = [k \in Readers |-> Nil]
  /\ heap = InitHeap
  /\ args = [via |-> 0]
  /\ frames = Nil
  /\ piece = Nil
  /\ compact = Nil
  /\ peers = Nil
  /\ response = Nil
  /\ requested = Nil
  /\ task = Nil
  /\ channel = Nil
  /\ timer = Nil
  /\ opened = Nil
  /\ handshake = Nil
  /\ serialized = None
  /\ inHandshake = None
  /\ conn = Nil
  /\ remote = Nil
  /\ ret = None
  /\ stack = Nil
  /\ retval = None
  /\ parts = Nil
  /\ data = <<>>
  /\ result = None
  /\ tail = <<>>
  /\ result2 = None
  /\ dict = Nil
  /\ order = Nil
  /\ encoded = None
  /\ decoded = None
  /\ torrent = None
  /\ infoHash = None
  /\ again = None
  /\ pieceIndex = Nil
  /\ pieceHash = None
  /\ pieceLength = None

\* What an action on the shared heap leaves alone.
sharedRest ==
  <<pc, frames, piece, handshake, serialized, inHandshake, conn, remote, ret,
    trackerVars, mainVars, fileVars>>

\* msg, err := ReadMessage(reader) of call k
ReadOn(k) ==
  /\ pc = "calls"
  /\ received[k] = None
  /\ LET m == ReadMessage(stream[k], heap)
     IN /\ received' = [received EXCEPT ![k] = [err |-> m.err, msg |-> m.msg]]
        /\ stream' = [stream EXCEPT ![k] = m.r]
        /\ heap' = m.heap
        /\ msgs' = [msgs EXCEPT ![k] =
                      IF m.err = NoErr THEN m.heap[m.msg.addr] ELSE Nil]
  /\ UNCHANGED <<args, sharedRest, stepVars>>

\* msg.Type = ..., msg.Length = ... or msg.Payload = ... by the caller of
\* call k
WriteThrough(k) ==
  /\ pc = "calls"
  /\ args.via = 0
  /\ received[k] # None
  /\ received[k].err = NoErr
  /\ \E w \in Writes :
       heap' = [heap EXCEPT ![received[k].msg.addr] =
                  IF w = "Type" THEN [@ EXCEPT !.Type = MsgPiece]
                  ELSE IF w = "Length" THEN [@ EXCEPT !.Length = U32(0, 9)]
                  ELSE [@ EXCEPT !.Payload = Bytes(<<1>>)]]
  /\ args' = [via |-> k]
  /\ UNCHANGED <<msgs, stream, received, sharedRest, stepVars>>

NextShared == \E k \in Readers : ReadOn(k) \/ WriteThrough(k)

SpecShared == InitShared /\ [][NextShared]_vars

\* C29: the values returned by different calls on independent inputs are
\* independent: a write through the pointer one call returned never changes
\* the Message another call returned.
ReturnedValuesIndependent ==
  \A j \in Readers :
    (received[j] # None /\ received[j].err = NoErr /\ args.via # j) =>
      heap[received[j].msg.addr] = msgs[j]

(***************************************************************************)
(* The decoder call by call                                                *)
(*                                                                         *)
(* Decode and decodeList run one step at a time: stack holds a frame for   *)
(* every call of Decode that has not returned, the outermost first, and    *)
(* retval the value the call above the top frame has just returned.  A     *)
(* frame of Decode that enters decodeList becomes the frame of that list:  *)
(* base is the offset of its slice in the buffer (data[pos:] shares the    *)
(* buffer), pos the cursor of its loop and acc its result so far.  The     *)
(* decoders of strings and integers, which make no calls, are one step.    *)
(***************************************************************************)
MaxBuf == 4

\* The bytes the buffers are made of: the markers of lists and integers, the
\* colon of strings and two digits.
StepBytes == {"l", "e", "i", "0", "1", ":"}

StepBuffers == UNION {[1..n -> StepBytes] : n \in 0..MaxBuf}

Frame(fn, base, pos, acc) == [fn |-> fn, base |-> base, pos |-> pos, acc |-> acc]

Top == stack[Len(stack)]

Pop == SubSeq(stack, 1, Len(stack) - 1)

ReplaceTop(f) == Append(Pop, f)

\* The slice the top frame was called with.
TopData == Slice(data, Top.base, Len(data))

InitSteps ==
  /\ pc = "Decode"
  /\ data = <<>>
  /\ stack = <<>>
  /\ retval = None
  /\ parts = Nil
  /\ result = None
  /\ tail = <<>>
  /\ result2 = None
  /\ dict = Nil
  /\ order = Nil
  /\ encoded = None
  /\ decoded = None
  /\ torrent = None
  /\ infoHash = None
  /\ again = None
  /\ pieceIndex = Nil
  /\ pieceHash = None
  /\ pieceLength = None
  /\ handshake = Nil
  /\ serialized = None
  /\ inHandshake = None
  /\ args = Nil
  /\ conn = Nil
  /\ remote = Nil
  /\ ret = None
  /\ msgs = Nil
  /\ frames = Nil
  /\ stream = Nil
  /\ received = Nil
  /\ piece = Nil
  /\ heap = Nil
  /\ compact = Nil
  /\ peers = Nil
  /\ response = Nil
  /\ requested = Nil
  /\ task = Nil
  /\ channel = Nil
  /\ timer = Nil
  /\ opened = Nil

stepRest ==
  <<parts, tail, result2, dict, order, encoded, decoded, torrent,
    infoHash, again, pieceIndex, pieceHash, pieceLength, peerVars, msgVars,
    trackerVars, mainVars>>

\* Decode(data): the caller passes a buffer.
DecodeEnter ==
  /\ pc = "Decode"
  /\ \E b \in StepBuffers : data' = b
  /\ stack' = <<Frame("Decode", 0, 0, <<>>)>>
  /\ pc' = "running"
  /\ UNCHANGED <<retval, result, stepRest>>

\* The body of Decode: the empty buffer, a string, an integer and an unknown
\* type return at once; a list enters decodeList, which returns at once when
\* the slice is shorter than two bytes and otherwise starts its loop behind
\* the 'l'.
DecodeBody ==
  /\ pc = "running"
  /\ stack # <<>>
  /\ Top.fn = "Decode"
  /\ IF Len(TopData) > 0 /\ At(TopData, 0) = "l"
     THEN IF Len(TopData) < 2
          THEN /\ retval' = Return(BList(<<>>), 0, <<"invalid list format">>)
               /\ stack' = Pop
          ELSE /\ retval' = None
               /\ stack' = ReplaceTop(Frame("decodeList", Top.base, 1, <<>>))
     ELSE /\ retval' = Decode(TopData)
          /\ stack' = Pop
  /\ UNCHANGED <<pc, data, result, stepRest>>

\* The test of the loop of decodeList: another item, whose decoding is a call
\* of Decode on data[pos:], or the end of the loop and the code after it.
decodeListTest ==
  /\ pc = "running"
  /\ stack # <<>>
  /\ Top.fn = "decodeList"
  /\ retval = None
  /\ IF Top.pos < Len(TopData) /\ At(TopData, Top.pos) # "e"
     THEN /\ stack' = Append(stack, Frame("Decode", Top.base + Top.pos, 0, <<>>))
          /\ retval' = None
     ELSE /\ stack' = Pop
          /\ retval' = IF Top.pos >= Len(TopData)
                       THEN Return(BList(<<>>), 0,
                                   <<"invalid list format: no end marker">>)
                       ELSE Return(BList(Top.acc), Top.pos + 1, NoErr)
  /\ UNCHANGED <<pc, data, result, stepRest>>

\* The call of Decode in the loop has returned: a panic unwinds the list as
\* well, an error ends it, an item is appended and the cursor moves by the
\* bytes read.
decodeListItem ==
  /\ pc = "running"
  /\ stack # <<>>
  /\ Top.fn = "decodeList"
  /\ retval # None
  /\ IF retval.st = "panic"
     THEN /\ stack' = Pop
          /\ retval' = retval
     ELSE IF retval.st = "err"
     THEN /\ stack' = Pop
          /\ retval' = Return(BList(<<>>), 0,
                              Wrap("error decoding list item", retval.err))
     ELSE /\ stack' = ReplaceTop(Frame("decodeList", Top.base,
                                       Top.pos + retval.n,
                                       Append(Top.acc, retval.val)))
          /\ retval' = None
  /\ UNCHANGED <<pc, data, result, stepRest>>

\* The outermost call returns to its caller.
DecodeReturn ==
  /\ pc = "running"
  /\ stack = <<>>
  /\ result' = retval
  /\ pc' = "decoded"
  /\ UNCHANGED <<data, stack, retval, stepRest>>

NextSteps ==
  DecodeEnter \/ DecodeBody \/ decodeListTest \/ decodeListItem \/ DecodeReturn

\* ENABLED <<NextSteps>>_vars: until the outermost call has returned, one of
\* the steps is possible, and each of them changes pc or the stack.
StepEnabled == pc \in {"Decode", "running"}

\* The decoder is sequential code: while a step is possible, one is taken.
\* This is WF_vars(NextSteps) with its ENABLED written as StepEnabled.
StepsFair == []<>(~StepEnabled) \/ []<><<NextSteps>>_vars

SpecSteps == InitSteps /\ [][NextSteps]_vars /\ StepsFair

\* The calls of Decode that have not returned.
Depth == Len(stack)

\* A step leaves the cursor of a list where it is or moves it forward, and
\* the step that takes an item in moves it forward.
CursorAdvances ==
  /\ \A k \in 1..Len(stack) :
       (k <= Len(stack') /\ stack[k].fn = "decodeList")
         => stack'[k].pos >= stack[k].pos
  /\ (decodeListItem /\ retval.st = "ok")
       => /\ stack'[Len(stack)].pos > Top.pos
          /\ stack'[Len(stack)].pos <= Len(TopData)

\* A nested call that succeeded has read at least one byte, no cursor is
\* behind the end of its slice, and there are no more calls than bytes (one
\* call when the buffer is empty).
StepsBounded ==
  pc = "running" =>
    /\ (stack # <<>> /\ retval # None /\ retval.st = "ok") => retval.n >= 1
    /\ \A k \in 1..Len(stack) : stack[k].base + stack[k].pos <= Len(data)
    /\ Depth <= IF Len(data) = 0 THEN 1 ELSE Len(data)

\* The result of the steps is the result of Decode.
StepsAgree == pc = "decoded" => result = Decode(data)

\* C30: Decode returns on every buffer: a nested item that decodes has taken
\* at least one byte, so each step that takes an item in moves the cursor of
\* its list forward, never past the end of the buffer, and the calls of
\* Decode in progress are never more than the bytes of the buffer.
DecodeTerminates ==
  /\ <>(pc = "decoded")
  /\ [][CursorAdvances]_vars
  /\ []StepsBounded

\* A list that has taken an item in, its cursor moved, is decoding its next
\* item.
DecodeTerminates_witness ==
  /\ pc = "running"
  /\ Len(stack) = 2
  /\ stack[1].fn = "decodeList"
  /\ stack[1].pos > 1
  /\ stack[2].fn = "Decode"

====
